---- MODULE Spec2Model ----
(***************************************************************************)
(* Web3VPN: the settlement contract (contract/src/Web3VPN.sol) with its    *)
(* ERC20 token, as a state machine.  One action per external function of   *)
(* the contract; a transaction that reverts leaves the storage untouched.  *)
(***************************************************************************)
EXTENDS Integers, Sequences, FiniteSets, Bags, TLC

(***************************************************************************)
(* Bounds of the model.                                                    *)
(***************************************************************************)
\* uint256 is modelled by 0..UintMax; checked arithmetic panics outside it.
UintMax == 16777215
\* getBytePrice() is 1e18; ledger amounts are modelled in a coarser unit.
BytePrice == 3
\* _submitInterval given to the constructor (120 in the tests, 60 deployed).
SubmitInterval == 30
\* No more than MaxEvents settlements are explored.
MaxEvents == 2
\* No more than MaxServers registrations are explored.
MaxServers == 1
\* No more than MaxChecked settlements are explored with every kind of report.
MaxChecked == 1
\* servers in the registry when the registry is explored on its own
MaxRegistered == 3
\* requests the provider's server handles at the same time
MaxInflight == 2

(***************************************************************************)
(* Identities and the EIP-712 domain.                                      *)
(***************************************************************************)
Addr == {"a1", "a2", "a3"}
\* what ECDSA.recover yields for a signature made over another digest
NoAddress == "0x0"
\* address(this) of the Web3VPN deployment
VPN == "vpn"
ChainId == 48898

USAGE_TYPEHASH == "Usage(address serverAddr,address clientAddr,uint256 bytesUsed,uint256 timestamp)"

Usage(serverAddr, clientAddr, bytesUsed, timestamp) ==
    [serverAddr |-> serverAddr, clientAddr |-> clientAddr,
     bytesUsed |-> bytesUsed, timestamp |-> timestamp]

\* EIP712("Usage", "1"): the domain separator of this deployment
DomainSeparator ==
    [name |-> "Usage", version |-> "1", chainId |-> ChainId, verifyingContract |-> VPN]

structHash(usage) ==
    <<USAGE_TYPEHASH, usage.serverAddr, usage.clientAddr, usage.bytesUsed, usage.timestamp>>

\* the struct hash signed without the domain separator
hashTypedDataV4NoDomain(domain, hash) == <<"1901", hash>>

hashTypedDataV4(domain, hash) == <<"1901", domain, hash>>

\* a signature is the signer's key applied to a digest
signUsage(usage, account) ==
    [signer |-> account, digest |-> hashTypedDataV4(DomainSeparator, structHash(usage))]

\* account.signTypedData({domain, types, primaryType: 'Usage', message})
signTypedData(domain, usage, account) ==
    [signer |-> account, digest |-> hashTypedDataV4(domain, structHash(usage))]

\* ECDSA.recover: the signer when the digest is the signed one, else an
\* address nobody holds
recover(digest, signature) ==
    IF signature.digest = digest THEN signature.signer ELSE NoAddress

\* _verifySignature as a deployment with the given domain separator runs it
verifySignatureAt(domain, usage, signature) ==
    recover(hashTypedDataV4(domain, structHash(usage)), signature)

\* the signer taken from the signature without hashing the record
verifySignatureSignerOnly(usage, signature) == signature.signer

verifySignature(usage, signature) ==
    recover(hashTypedDataV4(DomainSeparator, structHash(usage)), signature)

VARIABLES
    now,             \* block.timestamp
    balances,        \* mapping(address => uint256) balances
    lastSubmitTime,  \* mapping(address => uint256) lastSubmitTime
    servers,         \* Server[] servers
    events,          \* the UsageUploaded log
    tokenBalances,   \* ERC20 balances of the token
    allowances,      \* ERC20 allowances towards the contract, by owner
    tx,              \* the last call: function, sender, arguments, outcome
    settled,         \* the calls of submitUsageReport that succeeded
    interfaces,      \* the vpnIds whose WireGuard interface wg<ID> exists on the provider
    configs,         \* the peer key in wg<ID>.conf, by vpnId
    inflight,        \* the requests the provider's HTTP server is handling
    reply,           \* the last request answered, with its HTTP status
    sessionClient    \* the address whose /vpn/start brought wg<ID> up, by vpnId

\* the state of the provider's server
srv == <<interfaces, configs, inflight, reply, sessionClient>>

vars == <<now, balances, lastSubmitTime, servers, events, tokenBalances, allowances, tx, settled,
          interfaces, configs, inflight, reply, sessionClient>>

\* no call is being looked at
NoCall == [op |-> "none"]

(***************************************************************************)
(* Outcomes of a call.                                                     *)
(***************************************************************************)
OK == "ok"
\* Panic(0x11): checked uint256 arithmetic left 0..UintMax
Panic == "Panic"
ErrInterval == "Must wait for the submit interval"
ErrSender == "Unauthorized sender"
ErrServerZero == "Server usage must be greater than zero"
ErrClientZero == "Client usage must be greater than zero"
ErrServerAddr == "Server address mismatch"
ErrClientAddr == "Client address mismatch"
ErrPositive == "Timestamps must be positive"
ErrSkew == "Timestamps must be within 20 seconds of each other"
ErrServerOld == "Server timestamp too old"
ErrClientOld == "Client timestamp too old"
ErrServerSig == "Invalid server signature"
ErrClientSig == "Invalid client signature"
ErrUsage == "Usage mismatch exceeds allowed threshold"
ErrBalance == "Insufficient balance"
ErrDeposit == "Must deposit a positive amount"
ErrAllowance == "ERC20InsufficientAllowance"
ErrTokenBalance == "ERC20InsufficientBalance"

\* the first check of a list, in order, that did not pass
RECURSIVE FirstFailure(_)
FirstFailure(checks) ==
    IF checks = <<>> THEN OK
    ELSE IF Head(checks) # OK THEN Head(checks)
    ELSE FirstFailure(Tail(checks))

(***************************************************************************)
(* submitUsageReport, check by check, in the order of the code.            *)
(***************************************************************************)
\* the interval compared with > in place of >=
onlyAfterIntervalStrict(sender) ==
    IF lastSubmitTime[sender] + SubmitInterval > UintMax THEN Panic
    ELSE IF now > lastSubmitTime[sender] + SubmitInterval THEN OK
    ELSE ErrInterval

\* modifier onlyAfterInterval: only msg.sender is looked up
onlyAfterInterval(sender) ==
    IF lastSubmitTime[sender] + SubmitInterval > UintMax THEN Panic
    ELSE IF now >= lastSubmitTime[sender] + SubmitInterval THEN OK
    ELSE ErrInterval

\* the sender compared with the provider by # in place of =
checkSenderNegated(sender, serverUsage, clientUsage) ==
    IF sender = clientUsage.clientAddr \/ sender # serverUsage.serverAddr THEN OK ELSE ErrSender

checkSender(sender, serverUsage, clientUsage) ==
    IF sender = clientUsage.clientAddr \/ sender = serverUsage.serverAddr THEN OK ELSE ErrSender

checkServerBytes(serverUsage) == IF serverUsage.bytesUsed > 0 THEN OK ELSE ErrServerZero

\* the count compared with >= in place of >
checkClientBytesNonNegative(clientUsage) ==
    IF clientUsage.bytesUsed >= 0 THEN OK ELSE ErrClientZero

checkClientBytes(clientUsage) == IF clientUsage.bytesUsed > 0 THEN OK ELSE ErrClientZero

checkServerAddr(serverUsage, clientUsage) ==
    IF serverUsage.serverAddr = clientUsage.serverAddr THEN OK ELSE ErrServerAddr

\* the consumer's record compared with itself
checkClientAddrSelf(serverUsage, clientUsage) ==
    IF clientUsage.clientAddr = clientUsage.clientAddr THEN OK ELSE ErrClientAddr

checkClientAddr(serverUsage, clientUsage) ==
    IF clientUsage.clientAddr = serverUsage.clientAddr THEN OK ELSE ErrClientAddr

checkPositive(serverUsage, clientUsage) ==
    IF serverUsage.timestamp > 0 /\ clientUsage.timestamp > 0 THEN OK ELSE ErrPositive

\* s <= c + 20 && s >= c - 20 in checked uint256 arithmetic; && short-circuits
checkSkew(serverUsage, clientUsage) ==
    IF clientUsage.timestamp + 20 > UintMax THEN Panic
    ELSE IF ~(serverUsage.timestamp <= clientUsage.timestamp + 20) THEN ErrSkew
    ELSE IF clientUsage.timestamp < 20 THEN Panic
    ELSE IF ~(serverUsage.timestamp >= clientUsage.timestamp - 20) THEN ErrSkew
    ELSE OK

checkServerAge(serverUsage) ==
    IF now < SubmitInterval THEN Panic
    ELSE IF serverUsage.timestamp >= now - SubmitInterval THEN OK
    ELSE ErrServerOld

\* the age compared with > in place of >=
checkClientAgeStrict(clientUsage) ==
    IF now < SubmitInterval THEN Panic
    ELSE IF clientUsage.timestamp > now - SubmitInterval THEN OK
    ELSE ErrClientOld

checkClientAge(clientUsage) ==
    IF now < SubmitInterval THEN Panic
    ELSE IF clientUsage.timestamp >= now - SubmitInterval THEN OK
    ELSE ErrClientOld

checkServerSignature(serverUsage, serverSignature) ==
    IF verifySignature(serverUsage, serverSignature) = serverUsage.serverAddr THEN OK
    ELSE ErrServerSig

checkClientSignature(clientUsage, clientSignature) ==
    IF verifySignature(clientUsage, clientSignature) = clientUsage.clientAddr THEN OK
    ELSE ErrClientSig

\* (serverUsage.bytesUsed * 1) / 100 + 1000
maxDifference(serverUsage) == (serverUsage.bytesUsed * 1) \div 100 + 1000

\* only the lower half of the comparison made
checkUsageLowerOnly(serverUsage, clientUsage) ==
    IF maxDifference(serverUsage) > UintMax THEN Panic
    ELSE IF clientUsage.bytesUsed < maxDifference(serverUsage) THEN Panic
    ELSE IF ~(serverUsage.bytesUsed >= clientUsage.bytesUsed - maxDifference(serverUsage))
         THEN ErrUsage
    ELSE OK

\* s <= c + maxDifference && s >= c - maxDifference, checked, short-circuit
checkUsage(serverUsage, clientUsage) ==
    IF maxDifference(serverUsage) > UintMax THEN Panic
    ELSE IF clientUsage.bytesUsed + maxDifference(serverUsage) > UintMax THEN Panic
    ELSE IF ~(serverUsage.bytesUsed <= clientUsage.bytesUsed + maxDifference(serverUsage))
         THEN ErrUsage
    ELSE IF clientUsage.bytesUsed < maxDifference(serverUsage) THEN Panic
    ELSE IF ~(serverUsage.bytesUsed >= clientUsage.bytesUsed - maxDifference(serverUsage))
         THEN ErrUsage
    ELSE OK

\* the average rounded up in place of truncated
billedBytesRoundedUp(serverUsage, clientUsage) ==
    (serverUsage.bytesUsed + clientUsage.bytesUsed + 1) \div 2

\* uint256 bytesUsed = (serverUsage.bytesUsed + clientUsage.bytesUsed) / 2
billedBytes(serverUsage, clientUsage) ==
    (serverUsage.bytesUsed + clientUsage.bytesUsed) \div 2

getBytePrice == BytePrice

\* uint256 paymentAmount = bytesUsed * getBytePrice()
paymentAmount(serverUsage, clientUsage) ==
    billedBytes(serverUsage, clientUsage) * getBytePrice

\* the sum and the product left unchecked
checkPaymentUnchecked(serverUsage, clientUsage) == OK

checkPayment(serverUsage, clientUsage) ==
    IF serverUsage.bytesUsed + clientUsage.bytesUsed > UintMax THEN Panic
    ELSE IF paymentAmount(serverUsage, clientUsage) > UintMax THEN Panic
    ELSE OK

\* a payment that credits the provider and forgets the debit
payToServerCreditOnly(bal, serverOwner, clientOwner, amount) ==
    IF ~(bal[clientOwner] >= amount) THEN [status |-> ErrBalance, balances |-> bal]
    ELSE [status |-> OK, balances |-> [bal EXCEPT ![serverOwner] = @ + amount]]

\* a payment clamped to what the consumer holds
payToServerClamped(bal, serverOwner, clientOwner, amount) ==
    LET paid == IF bal[clientOwner] >= amount THEN amount ELSE bal[clientOwner]
        debited == [bal EXCEPT ![clientOwner] = @ - paid]
    IN  [status |-> OK, balances |-> [debited EXCEPT ![serverOwner] = @ + paid]]

\* _payToServer on the ledger bal: the status and the ledger as written so far
\* the consumer debited and the provider never credited
payToServerDebitOnly(bal, serverOwner, clientOwner, amount) ==
    IF ~(bal[clientOwner] >= amount) THEN [status |-> ErrBalance, balances |-> bal]
    ELSE [status |-> OK, balances |-> [bal EXCEPT ![clientOwner] = @ - amount]]

payToServer(bal, serverOwner, clientOwner, amount) ==
    IF ~(bal[clientOwner] >= amount) THEN [status |-> ErrBalance, balances |-> bal]
    ELSE LET debited == [bal EXCEPT ![clientOwner] = @ - amount]
         IN  IF debited[serverOwner] + amount > UintMax
             THEN [status |-> Panic, balances |-> debited]
             ELSE [status |-> OK,
                   balances |-> [debited EXCEPT ![serverOwner] = @ + amount]]

\* the require statements of the body of submitUsageReport before the
\* payment, in order
bodyChecks(sender, serverUsage, clientUsage, serverSignature, clientSignature) ==
    FirstFailure(<<
        checkSender(sender, serverUsage, clientUsage),
        checkServerBytes(serverUsage),
        checkClientBytes(clientUsage),
        checkServerAddr(serverUsage, clientUsage),
        checkClientAddr(serverUsage, clientUsage),
        checkPositive(serverUsage, clientUsage),
        checkSkew(serverUsage, clientUsage),
        checkServerAge(serverUsage),
        checkClientAge(clientUsage),
        checkServerSignature(serverUsage, serverSignature),
        checkClientSignature(clientUsage, clientSignature),
        checkUsage(serverUsage, clientUsage),
        checkPayment(serverUsage, clientUsage) >>)

\* the modifier runs before the body
validation(sender, serverUsage, clientUsage, serverSignature, clientSignature) ==
    FirstFailure(<<
        onlyAfterInterval(sender),
        bodyChecks(sender, serverUsage, clientUsage, serverSignature, clientSignature) >>)

\* the event emitted twice
emitUsageUploadedTwice(log, serverOwner, clientOwner, bytesUsed) ==
    LET e == [serverAddr |-> serverOwner, clientAddr |-> clientOwner, bytesUsed |-> bytesUsed]
    IN  Append(Append(log, e), e)

\* emit UsageUploaded(serverOwner, clientOwner, bytesUsed)
emitUsageUploaded(log, serverOwner, clientOwner, bytesUsed) ==
    Append(log, [serverAddr |-> serverOwner, clientAddr |-> clientOwner,
                 bytesUsed |-> bytesUsed])

\* the time of the records written in place of block.timestamp
recordSubmitTimeOfRecords(last, serverUsage, clientUsage) ==
    [last EXCEPT ![serverUsage.serverAddr] = serverUsage.timestamp,
                 ![clientUsage.clientAddr] = clientUsage.timestamp]

\* only the provider's entry written
recordSubmitTimeOfProvider(last, serverUsage, clientUsage) ==
    [last EXCEPT ![serverUsage.serverAddr] = now]

\* one time of last submission shared by every identity
recordSubmitTimeOfAll(last, serverUsage, clientUsage) == [a \in DOMAIN last |-> now]

\* lastSubmitTime[serverOwner] = block.timestamp;
\* lastSubmitTime[clientOwner] = block.timestamp
recordSubmitTime(last, serverUsage, clientUsage) ==
    [last EXCEPT ![serverUsage.serverAddr] = now, ![clientUsage.clientAddr] = now]

\* the body of submitUsageReport run on the current storage: its status and
\* the storage as the body wrote it up to the point where it stopped
submitOutcome(sender, serverUsage, clientUsage, serverSignature, clientSignature) ==
    LET v == validation(sender, serverUsage, clientUsage, serverSignature, clientSignature)
        serverOwner == serverUsage.serverAddr
        clientOwner == clientUsage.clientAddr
        unwritten == [balances |-> balances, events |-> events,
                      lastSubmitTime |-> lastSubmitTime]
    IN  IF v # OK THEN [status |-> v] @@ unwritten
        ELSE LET paid == payToServer(balances, serverOwner, clientOwner,
                                     paymentAmount(serverUsage, clientUsage))
             IN  IF paid.status # OK
                 THEN [unwritten EXCEPT !.balances = paid.balances] @@ [status |-> paid.status]
                 ELSE [status |-> OK,
                       balances |-> paid.balances,
                       events |-> emitUsageUploaded(events, serverOwner, clientOwner,
                                                    billedBytes(serverUsage, clientUsage)),
                       lastSubmitTime |-> recordSubmitTime(lastSubmitTime, serverUsage,
                                                           clientUsage)]

\* what a transaction leaves in storage: the writes of its body when it
\* succeeded, nothing when it reverted
committed(outcome, before) == IF outcome.status = OK THEN outcome ELSE before

\* the storage submitUsageReport works on
SettlementStorage ==
    [balances |-> balances, events |-> events, lastSubmitTime |-> lastSubmitTime]

\* the step of a call of submitUsageReport that ended with status and left after
submitStep(call, status, after) ==
    /\ tx = NoCall
    /\ Len(events) < MaxEvents
    /\ balances' = after.balances
    /\ events' = after.events
    /\ lastSubmitTime' = after.lastSubmitTime
    /\ tx' = call @@ [op |-> "submitUsageReport", status |-> status]
    /\ settled' = IF status = OK THEN Append(settled, call) ELSE settled
    /\ UNCHANGED <<now, servers, tokenBalances, allowances>>

\* a limiter that counts every attempt of the sender, reverted or not
submitUsageReportCountingAttempts(sender, serverUsage, clientUsage, serverSignature, clientSignature) ==
    LET out == submitOutcome(sender, serverUsage, clientUsage, serverSignature, clientSignature)
        after == committed(out, SettlementStorage)
    IN  /\ submitStep([sender |-> sender, serverUsage |-> serverUsage,
                       clientUsage |-> clientUsage, serverSignature |-> serverSignature,
                       clientSignature |-> clientSignature],
                      out.status,
                      [after EXCEPT !.lastSubmitTime =
                          IF out.status = OK THEN @ ELSE [@ EXCEPT ![sender] = now]])
        /\ UNCHANGED srv

submitUsageReport(sender, serverUsage, clientUsage, serverSignature, clientSignature) ==
    LET out == submitOutcome(sender, serverUsage, clientUsage, serverSignature, clientSignature)
    IN  /\ submitStep([sender |-> sender, serverUsage |-> serverUsage,
                       clientUsage |-> clientUsage, serverSignature |-> serverSignature,
                       clientSignature |-> clientSignature],
                      out.status, committed(out, SettlementStorage))
        /\ UNCHANGED srv

(***************************************************************************)
(* The other functions of the contract.                                    *)
(***************************************************************************)
composeServerInfo(sender, endpoint, name) ==
    [endpoint |-> endpoint, name |-> name, owner |-> sender, registrationTime |-> now]

getServers == servers

checkClientValid(owner) == balances[owner] >= 1000 * BytePrice

\* the whole balance reported as the number of bytes
getMaxUsageUnscaled(user) == balances[user]

getMaxUsage(user) == balances[user] \div getBytePrice

\* one record kept for an owner and endpoint: a second registration
\* overwrites the first in place
registerServerReplacing(sender, endpoint, name) ==
    LET same == {i \in 1..Len(servers) :
                    servers[i].owner = sender /\ servers[i].endpoint = endpoint}
    IN  /\ tx = NoCall
        /\ servers' = IF same = {} THEN Append(servers, composeServerInfo(sender, endpoint, name))
                       ELSE [i \in 1..Len(servers) |->
                               IF i \in same THEN composeServerInfo(sender, endpoint, name)
                               ELSE servers[i]]
        /\ tx' = [op |-> "registerServer", sender |-> sender, endpoint |-> endpoint,
                  name |-> name, status |-> OK]
        /\ UNCHANGED <<now, balances, lastSubmitTime, events, tokenBalances, allowances, settled, srv>>

\* a registration that also counts as the owner's submission
registerServerStamping(sender, endpoint, name) ==
    /\ tx = NoCall
    /\ servers' = Append(servers, composeServerInfo(sender, endpoint, name))
    /\ lastSubmitTime' = [lastSubmitTime EXCEPT ![sender] = now]
    /\ tx' = [op |-> "registerServer", sender |-> sender, endpoint |-> endpoint,
              name |-> name, status |-> OK]
    /\ UNCHANGED <<now, balances, events, tokenBalances, allowances, settled, srv>>

registerServer(sender, endpoint, name) ==
    /\ tx = NoCall
    /\ servers' = Append(servers, composeServerInfo(sender, endpoint, name))
    /\ tx' = [op |-> "registerServer", sender |-> sender, endpoint |-> endpoint,
              name |-> name, status |-> OK]
    /\ UNCHANGED <<now, balances, lastSubmitTime, events, tokenBalances, allowances, settled, srv>>

\* ERC20.transferFrom(from, address(this), amount) called by the contract:
\* the allowance from gave the contract is spent unless it is unlimited
transferFrom(tok, from, amount) ==
    IF tok.allowances[from] # UintMax /\ tok.allowances[from] < amount
    THEN [status |-> ErrAllowance] @@ tok
    ELSE IF tok.tokenBalances[from] < amount
    THEN [status |-> ErrTokenBalance] @@ tok
    ELSE [status |-> OK,
          allowances |-> IF tok.allowances[from] = UintMax THEN tok.allowances
                         ELSE [tok.allowances EXCEPT ![from] = @ - amount],
          tokenBalances |-> [tok.tokenBalances EXCEPT ![from] = @ - amount,
                                                      ![VPN] = @ + amount]]

\* ERC20.transfer(to, amount) called by the contract
transfer(tok, to, amount) ==
    IF tok.tokenBalances[VPN] < amount
    THEN [status |-> ErrTokenBalance] @@ tok
    ELSE [status |-> OK,
          allowances |-> tok.allowances,
          tokenBalances |-> [tok.tokenBalances EXCEPT ![VPN] = @ - amount,
                                                      ![to] = @ + amount]]

\* the deposit credited whether or not the token moved
depositOutcomeUncheckedTransfer(sender, amount) ==
    LET unwritten == [balances |-> balances, tokenBalances |-> tokenBalances,
                      allowances |-> allowances]
        approved == [tokenBalances |-> tokenBalances,
                     allowances |-> [allowances EXCEPT ![VPN] = amount]]
        moved == transferFrom(approved, sender, amount)
        kept == IF moved.status = OK THEN moved ELSE [status |-> OK] @@ approved
    IN  IF ~(amount > 0) THEN [status |-> ErrDeposit] @@ unwritten
        ELSE IF balances[sender] + amount > UintMax
        THEN [status |-> Panic, balances |-> balances] @@ kept
        ELSE [balances |-> [balances EXCEPT ![sender] = @ + amount]] @@ kept

\* the deposit without its require on the amount
depositOutcomeAcceptingZero(sender, amount) ==
    LET approved == [tokenBalances |-> tokenBalances,
                     allowances |-> [allowances EXCEPT ![VPN] = amount]]
        moved == transferFrom(approved, sender, amount)
    IN  IF moved.status # OK THEN [balances |-> balances] @@ moved
        ELSE IF balances[sender] + amount > UintMax
        THEN [status |-> Panic, balances |-> balances] @@ moved
        ELSE [balances |-> [balances EXCEPT ![sender] = @ + amount]] @@ moved

depositOutcome(sender, amount) ==
    LET unwritten == [balances |-> balances, tokenBalances |-> tokenBalances,
                      allowances |-> allowances]
        \* Web3VPNToken(tokenAddress).approve(address(this), amount)
        approved == [tokenBalances |-> tokenBalances,
                     allowances |-> [allowances EXCEPT ![VPN] = amount]]
        moved == transferFrom(approved, sender, amount)
    IN  IF ~(amount > 0) THEN [status |-> ErrDeposit] @@ unwritten
        ELSE IF moved.status # OK THEN [balances |-> balances] @@ moved
        ELSE IF balances[sender] + amount > UintMax
        THEN [status |-> Panic, balances |-> balances] @@ moved
        ELSE [balances |-> [balances EXCEPT ![sender] = @ + amount]] @@ moved

deposit(sender, amount) ==
    LET out == depositOutcome(sender, amount)
        after == committed(out, [balances |-> balances, tokenBalances |-> tokenBalances,
                                 allowances |-> allowances])
    IN  /\ tx = NoCall
        /\ balances' = after.balances
        /\ tokenBalances' = after.tokenBalances
        /\ allowances' = after.allowances
        /\ tx' = [op |-> "deposit", sender |-> sender, amount |-> amount,
                  status |-> out.status]
        /\ UNCHANGED <<now, lastSubmitTime, servers, events, settled, srv>>

\* the withdrawal clamped to the balance in place of the require
withdrawOutcomeClamped(sender, amount) ==
    LET paid == IF balances[sender] >= amount THEN amount ELSE balances[sender]
        moved == transfer([tokenBalances |-> tokenBalances, allowances |-> allowances],
                          sender, paid)
    IN  [balances |-> [balances EXCEPT ![sender] = @ - paid]] @@ moved

\* the withdrawal that debits the ledger and sends no tokens
withdrawOutcomeNoTransfer(sender, amount) ==
    LET unwritten == [balances |-> balances, tokenBalances |-> tokenBalances,
                      allowances |-> allowances]
        debited == [balances EXCEPT ![sender] = @ - amount]
    IN  IF ~(balances[sender] >= amount) THEN [status |-> ErrBalance] @@ unwritten
        ELSE [status |-> OK, balances |-> debited, tokenBalances |-> tokenBalances,
              allowances |-> allowances]

withdrawOutcome(sender, amount) ==
    LET unwritten == [balances |-> balances, tokenBalances |-> tokenBalances,
                      allowances |-> allowances]
        debited == [balances EXCEPT ![sender] = @ - amount]
        moved == transfer([tokenBalances |-> tokenBalances, allowances |-> allowances],
                          sender, amount)
    IN  IF ~(balances[sender] >= amount) THEN [status |-> ErrBalance] @@ unwritten
        ELSE [balances |-> debited] @@ moved

withdraw(sender, amount) ==
    LET out == withdrawOutcome(sender, amount)
        after == committed(out, [balances |-> balances, tokenBalances |-> tokenBalances,
                                 allowances |-> allowances])
    IN  /\ tx = NoCall
        /\ balances' = after.balances
        /\ tokenBalances' = after.tokenBalances
        /\ allowances' = after.allowances
        /\ tx' = [op |-> "withdraw", sender |-> sender, amount |-> amount,
                  status |-> out.status]
        /\ UNCHANGED <<now, lastSubmitTime, servers, events, settled, srv>>

\* block.timestamp moves forward between transactions
warp(t) ==
    /\ tx = NoCall
    /\ t > now
    /\ now' = t
    /\ UNCHANGED <<balances, lastSubmitTime, servers, events, tokenBalances, allowances,
                   tx, settled, srv>>

\* the outcome of the last call has been read; the next call can be made
nextCall ==
    /\ tx # NoCall
    /\ tx' = NoCall
    /\ UNCHANGED <<now, balances, lastSubmitTime, servers, events, tokenBalances, allowances,
                   settled, srv>>

(***************************************************************************)
(* The provider: the WireGuard interfaces (provider.ts) and the HTTP       *)
(* server in front of them (server.ts).                                    *)
(***************************************************************************)
\* privateKeyToAccount(this.web3PrivateKey).address
ServerAccount == "a1"

\* the message a client signs to authenticate a request: `It is ${address}`
ItIs(address) == <<"It is", address>>

\* walletClient.signMessage({message})
signMessage(message, account) == [signer |-> account, message |-> message]

\* a request sent without a signature
NoSignature == [signer |-> NoAddress, message |-> <<>>]

\* viem's verifyMessage({address, message, signature})
verifyMessage(address, message, signature) ==
    signature.signer = address /\ signature.message = message

\* a verification that looks at the message signed and not at its signer
verifyRequestSignatureOfAnyone(address, signature, message) ==
    signature.message = message

\* VpnServer.verifySignature: verifyMessage, false when it throws
verifyRequestSignature(address, signature, message) ==
    verifyMessage(address, message, signature)

\* Provider.isInterfaceExists: ip link show wg<ID>
isInterfaceExists(ifs, ID) == ID \in ifs

\* Provider.start: throws when wg<ID> exists, else writes wg<ID>.conf with
\* the client's key as peer and runs wg-quick up
providerStart(ifs, cfg, ID, clientPublicKey) ==
    IF isInterfaceExists(ifs, ID)
    THEN [thrown |-> TRUE, interfaces |-> ifs, configs |-> cfg]
    ELSE [thrown |-> FALSE, interfaces |-> ifs \cup {ID},
          configs |-> [cfg EXCEPT ![ID] = clientPublicKey]]

\* Provider.stop: throws when wg<ID> does not exist, else runs wg-quick down
providerStop(ifs, ID) ==
    IF ~isInterfaceExists(ifs, ID)
    THEN [thrown |-> TRUE, interfaces |-> ifs]
    ELSE [thrown |-> FALSE, interfaces |-> ifs \ {ID}]

\* Provider.status
providerStatus(ifs, ID) == [running |-> isInterfaceExists(ifs, ID)]

\* Provider.transfer: the counters wg show reports for wg<ID>; without the
\* interface the result carries no counters
providerTransfer(ifs, ID, inbound, outbound) ==
    IF ~isInterfaceExists(ifs, ID)
    THEN [success |-> FALSE, inbound |-> 0, outbound |-> 0]
    ELSE [success |-> TRUE, inbound |-> inbound, outbound |-> outbound]

\* the decimal digits of a number, most significant first: BigInt.toString()
RECURSIVE toString(_)
toString(n) == IF n < 10 THEN <<n>> ELSE Append(toString(n \div 10), n % 10)

\* a reading of the digits that takes the last one as the most significant
RECURSIVE BigIntLeastSignificantFirst(_)
BigIntLeastSignificantFirst(digits) ==
    IF Len(digits) = 0 THEN 0
    ELSE 10 * BigIntLeastSignificantFirst(SubSeq(digits, 2, Len(digits))) + digits[1]

\* BigInt(string) of a string of decimal digits
RECURSIVE BigInt(_)
BigInt(digits) ==
    IF Len(digits) = 0 THEN 0
    ELSE 10 * BigInt(SubSeq(digits, 1, Len(digits) - 1)) + digits[Len(digits)]

\* serializeUsage: the record with its two numbers as decimal strings
serializeUsage(usage) ==
    [serverAddr |-> usage.serverAddr, clientAddr |-> usage.clientAddr,
     bytesUsed |-> toString(usage.bytesUsed), timestamp |-> toString(usage.timestamp)]

\* a body whose clientUsageRaw is not the JSON of a usage record
Malformed == [malformed |-> TRUE]

\* JSON.parse(clientUsageRaw) with bytesUsed and timestamp through BigInt
parseUsage(clientUsageRaw) ==
    [serverAddr |-> clientUsageRaw.serverAddr, clientAddr |-> clientUsageRaw.clientAddr,
     bytesUsed |-> BigInt(clientUsageRaw.bytesUsed),
     timestamp |-> BigInt(clientUsageRaw.timestamp)]

\* no request answered yet
NoReply == [kind |-> "none"]

\* the requests being handled
Handlers == BagToSet(inflight)

\* a request taken up by the server: its handler runs until its first await
accept(request) ==
    /\ inflight' = inflight (+) SetToBag({request})
    /\ reply' = reply

\* a request turned down for its body, before the handler's first await
refuse(request, status) ==
    /\ reply' = [request EXCEPT !.pc = "body"] @@ [status |-> status]
    /\ inflight' = inflight

\* the request of a handler answered with an HTTP status; the answer keeps
\* the step the handler had reached
respond(h, status) ==
    /\ reply' = h @@ [status |-> status]
    /\ inflight' = inflight (-) SetToBag({h})

\* a handler moved on to its next await
proceed(h, request) ==
    /\ inflight' = (inflight (-) SetToBag({h})) (+) SetToBag({request})
    /\ reply' = reply

\* the ledger and the chain left as they are
ChainUnchanged ==
    UNCHANGED <<now, balances, lastSubmitTime, servers, events, tokenBalances, allowances,
                tx, settled>>

\* the vpnIds clients ask for, and the peer key of no configuration
VpnIds == {1, 2}
NoKey == "none"

\* placeholders of a request's fields before the handler fills them
NoUsage == Usage(NoAddress, NoAddress, 0, 0)
NoUsageSignature == [signer |-> NoAddress, digest |-> <<>>]
NotSubmitted == "not submitted"
\* writeContract failed before the contract ran: the RPC endpoint failed
RpcError == "rpc error"

\* POST /vpn/start up to its first await: the body's fields are looked at,
\* then the contract is asked for checkClientValid
receiveStart(vpnId, clientPublicKey, address, signature) ==
    LET request == [kind |-> "start", vpnId |-> vpnId, clientPublicKey |-> clientPublicKey,
                    address |-> address, signature |-> signature,
                    pc |-> "checkClientValid", isClientValid |-> FALSE, running |-> FALSE]
    IN  /\ BagCardinality(inflight) < MaxInflight
        /\ IF signature = NoSignature THEN refuse(request, 400)
           ELSE accept(request)
        /\ UNCHANGED <<interfaces, configs, sessionClient>>
        /\ ChainUnchanged

\* /vpn/start after readContract checkClientValid: 500 when the read
\* failed, 403 when the contract said false, else the signature is verified
startCheckClientValid(h, rpcFails) ==
    /\ h \in Handlers /\ h.kind = "start" /\ h.pc = "checkClientValid"
    /\ IF rpcFails THEN respond(h, 500)
       ELSE IF ~checkClientValid(h.address) THEN respond(h, 403)
       ELSE proceed(h, [h EXCEPT !.pc = "verifySignature", !.isClientValid = TRUE])
    /\ UNCHANGED <<interfaces, configs, sessionClient>>
    /\ ChainUnchanged

\* /vpn/start after verifySignature: 401 when it is invalid, else
\* provider.status(vpnId) is called and awaited
startVerifySignature(h) ==
    /\ h \in Handlers /\ h.kind = "start" /\ h.pc = "verifySignature"
    /\ IF ~verifyRequestSignature(h.address, h.signature, ItIs(h.address))
       THEN respond(h, 401)
       ELSE proceed(h, [h EXCEPT !.pc = "start",
                                    !.running = providerStatus(interfaces, h.vpnId).running])
    /\ UNCHANGED <<interfaces, configs, sessionClient>>
    /\ ChainUnchanged

\* /vpn/start after the status: 400 when it said running, else
\* provider.start(vpnId, clientPublicKey); 500 when that throws
startProviderStart(h) ==
    LET out == providerStart(interfaces, configs, h.vpnId, h.clientPublicKey)
    IN  /\ h \in Handlers /\ h.kind = "start" /\ h.pc = "start"
        /\ IF h.running
           THEN /\ respond(h, 400)
                /\ UNCHANGED <<interfaces, configs, sessionClient>>
           ELSE /\ interfaces' = out.interfaces
                /\ configs' = out.configs
                /\ IF out.thrown
                   THEN /\ respond(h, 500)
                        /\ sessionClient' = sessionClient
                   ELSE /\ respond(h, 200)
                        /\ sessionClient' = [sessionClient EXCEPT ![h.vpnId] = h.address]
        /\ ChainUnchanged

\* POST /vpn/stop up to its first await: the body's fields are looked at,
\* clientUsageRaw is parsed (a throw is answered 500 by the middleware),
\* then the request's signature is verified
receiveStop(vpnId, address, signature, clientUsageRaw, clientSignature) ==
    LET request == [kind |-> "stop", vpnId |-> vpnId, address |-> address,
                    signature |-> signature,
                    clientUsage |-> IF clientUsageRaw = Malformed THEN NoUsage
                                    ELSE parseUsage(clientUsageRaw),
                    clientSignature |-> clientSignature,
                    pc |-> "verifySignature", running |-> FALSE,
                    inbound |-> 0, outbound |-> 0,
                    serverUsage |-> NoUsage, serverSignature |-> NoUsageSignature,
                    submitted |-> NotSubmitted]
    IN  /\ BagCardinality(inflight) < MaxInflight
        /\ IF signature = NoSignature \/ clientSignature = NoUsageSignature
           THEN refuse(request, 400)
           ELSE IF clientUsageRaw = Malformed THEN refuse(request, 500)
           ELSE accept(request)
        /\ UNCHANGED <<interfaces, configs, sessionClient>>
        /\ ChainUnchanged

\* /vpn/stop after verifySignature: 401 when it is invalid, else
\* provider.status(vpnId) is called and awaited
stopVerifySignature(h) ==
    /\ h \in Handlers /\ h.kind = "stop" /\ h.pc = "verifySignature"
    /\ IF ~verifyRequestSignature(h.address, h.signature, ItIs(h.address))
       THEN respond(h, 401)
       ELSE proceed(h, [h EXCEPT !.pc = "transfer",
                                    !.running = providerStatus(interfaces, h.vpnId).running])
    /\ UNCHANGED <<interfaces, configs, sessionClient>>
    /\ ChainUnchanged

\* a record that reports the inbound counter alone
composeServerUsageInboundOnly(address, response, time) ==
    Usage(ServerAccount, address, response.inbound, time)

\* the server's record: its own address, the request's address, the sum of
\* the counters of provider.transfer (0 for a counter that is missing), the
\* server's clock
composeServerUsage(address, response, time) ==
    Usage(ServerAccount, address, response.inbound + response.outbound, time)

\* /vpn/stop after the status: 400 when it said not running, else the
\* counters are read, the server's record is made and signed
stopReadTransfer(h, inbound, outbound) ==
    LET response == providerTransfer(interfaces, h.vpnId, inbound, outbound)
        serverUsage == composeServerUsage(h.address, response, now)
    IN  /\ h \in Handlers /\ h.kind = "stop" /\ h.pc = "transfer"
        /\ IF ~h.running THEN respond(h, 400)
           ELSE proceed(h, [h EXCEPT !.pc = "submit",
                                        !.inbound = response.inbound,
                                        !.outbound = response.outbound,
                                        !.serverUsage = serverUsage,
                                        !.serverSignature = signUsage(serverUsage, ServerAccount)])
        /\ UNCHANGED <<interfaces, configs, sessionClient>>
        /\ ChainUnchanged

\* /vpn/stop: writeContract submitUsageReport from the server's account; a
\* revert or a failure of the RPC endpoint is caught and logged
stopSubmit(h, rpcFails) ==
    LET call == [sender |-> ServerAccount, serverUsage |-> h.serverUsage,
                 clientUsage |-> h.clientUsage, serverSignature |-> h.serverSignature,
                 clientSignature |-> h.clientSignature]
        out == submitOutcome(ServerAccount, h.serverUsage, h.clientUsage, h.serverSignature,
                             h.clientSignature)
    IN  /\ h \in Handlers /\ h.kind = "stop" /\ h.pc = "submit"
        /\ IF rpcFails
           THEN /\ ChainUnchanged
                /\ proceed(h, [h EXCEPT !.pc = "stop", !.submitted = RpcError])
           ELSE /\ submitStep(call, out.status, committed(out, SettlementStorage))
                /\ proceed(h, [h EXCEPT !.pc = "stop", !.submitted = out.status])
        /\ UNCHANGED <<interfaces, configs, sessionClient>>

\* /vpn/stop after the submission, caught or not: provider.stop(vpnId);
\* 500 when it throws, else success
stopProviderStop(h) ==
    LET out == providerStop(interfaces, h.vpnId)
    IN  /\ h \in Handlers /\ h.kind = "stop" /\ h.pc = "stop"
        /\ interfaces' = out.interfaces
        /\ IF out.thrown
           THEN /\ respond(h, 500)
                /\ sessionClient' = sessionClient
           ELSE /\ respond(h, 200)
                /\ sessionClient' = [sessionClient EXCEPT ![h.vpnId] = NoAddress]
        /\ configs' = configs
        /\ ChainUnchanged

(***************************************************************************)
(* The inputs explored.                                                    *)
(***************************************************************************)
\* ledger times: just before the first submission can pass, and one
\* interval later
TimePoints ==
    {SubmitInterval - 1, SubmitInterval, SubmitInterval + 5,
     2 * SubmitInterval - 1, 2 * SubmitInterval, 2 * SubmitInterval + 5}

StartTime == SubmitInterval - 1

\* tokens every identity holds at the start, approved for the contract
InitialTokens == 10000 * BytePrice

DepositAmounts == {0, 10000 * BytePrice}

\* a withdrawal that leaves a balance one unit short of the price of 1000 bytes
WithdrawAmounts == {9000 * BytePrice + 1}

\* (provider, consumer) of the sessions reported
Sessions == {<<"a1", "a2">>, <<"a1", "a3">>, <<"a3", "a3">>}

\* (provider bytes, consumer bytes)
BytePairs ==
    {<<5000, 5000>>, <<5001, 5000>>, <<10000, 8900>>, <<10000, 8899>>, <<6000, 4000>>,
     <<500, 500>>, <<500, 1500>>, <<1000, 2010>>, <<1000, 2011>>,
     <<0, 5000>>, <<5000, 0>>,
     <<UintMax, UintMax>>,
     <<UintMax \div 2 + 1, UintMax \div 2 + 1>>,
     <<UintMax \div BytePrice + 1, UintMax \div BytePrice + 1>>}

\* (provider timestamp, consumer timestamp) at ledger time t
TimestampPairs(t) ==
    {pr \in {<<t, t>>, <<t, t - 20>>, <<t, t - 21>>, <<t - 20, t>>, <<t - 21, t>>,
             <<t - SubmitInterval, t - SubmitInterval>>,
             <<t - SubmitInterval - 1, t - SubmitInterval - 1>>,
             <<t - SubmitInterval, t - SubmitInterval - 1>>,
             <<t - SubmitInterval - 1, t - SubmitInterval>>,
             <<0, t>>, <<t, 0>>,
             <<t + SubmitInterval + 1, t + SubmitInterval + 1>>,
             <<UintMax, UintMax>>} : pr[1] >= 0 /\ pr[2] >= 0}

Report(sender, serverUsage, clientUsage, serverSignature, clientSignature) ==
    [sender |-> sender, serverUsage |-> serverUsage, clientUsage |-> clientUsage,
     serverSignature |-> serverSignature, clientSignature |-> clientSignature]

\* both parties sign their own record of the session
SignedReport(sender, serverUsage, clientUsage) ==
    Report(sender, serverUsage, clientUsage,
           signUsage(serverUsage, serverUsage.serverAddr),
           signUsage(clientUsage, clientUsage.clientAddr))

\* the reports of a session as a running system sends them: equal counts,
\* dated now or one interval ago, sent by anyone
SessionReports ==
    {SignedReport(sender, Usage(ss[1], ss[2], 5000, ts), Usage(ss[1], ss[2], 5000, ts)) :
        sender \in Addr, ss \in Sessions,
        ts \in {t \in {now, now - SubmitInterval, now - SubmitInterval - 1} : t >= 0}}

\* reports of every byte-count pair, dated now
ByteReports ==
    {SignedReport(ss[1], Usage(ss[1], ss[2], b[1], now), Usage(ss[1], ss[2], b[2], now)) :
        ss \in Sessions, b \in BytePairs}

\* reports of every timestamp pair
TimeReports ==
    {SignedReport(ss[1], Usage(ss[1], ss[2], 5000, ts[1]), Usage(ss[1], ss[2], 5000, ts[2])) :
        ss \in Sessions, ts \in TimestampPairs(now)}

\* reports whose two records name different parties
AddressReports ==
    UNION {{SignedReport(ss[1], Usage(ss[1], ss[2], 5000, now), Usage(x, ss[2], 5000, now)),
            SignedReport(ss[2], Usage(ss[1], ss[2], 5000, now), Usage(ss[1], x, 5000, now))} :
                ss \in Sessions, x \in Addr}

\* reports whose signatures are by someone else or over another record
SignatureReports ==
    UNION {LET su == Usage(ss[1], ss[2], 5000, now)
               cu == Usage(ss[1], ss[2], 5001, now)
           IN  {Report(ss[1], su, cu, signUsage(su, x), signUsage(cu, ss[2])),
                Report(ss[1], su, cu, signUsage(su, ss[1]), signUsage(cu, x)),
                Report(ss[1], su, cu, signUsage(cu, ss[1]), signUsage(cu, ss[2])),
                Report(ss[1], su, cu, signUsage(su, ss[1]), signUsage(su, ss[2]))} :
                ss \in Sessions, x \in Addr}

\* reports with a signature its author made over the record of one second
\* earlier
BorrowedSignatureReports ==
    UNION {LET u == Usage(ss[1], ss[2], 5000, now)
               earlier == Usage(ss[1], ss[2], 5000, now - 1)
           IN  {Report(ss[1], u, u, signUsage(earlier, ss[1]), signUsage(u, ss[2])),
                Report(ss[1], u, u, signUsage(u, ss[1]), signUsage(earlier, ss[2]))} :
                ss \in Sessions}

\* the domains of another deployment: at another address, on another chain
OtherDomains ==
    {[DomainSeparator EXCEPT !.verifyingContract = "vpn2"],
     [DomainSeparator EXCEPT !.chainId = ChainId + 1]}

\* reports with a signature its author made for another deployment
ForeignReports ==
    UNION {LET u == Usage(ss[1], ss[2], 5000, now)
           IN  {Report(ss[1], u, u, signTypedData(d, u, ss[1]), signUsage(u, ss[2])),
                Report(ss[1], u, u, signUsage(u, ss[1]), signTypedData(d, u, ss[2]))} :
                ss \in Sessions, d \in OtherDomains}

Reports ==
    SessionReports \cup ByteReports \cup TimeReports \cup AddressReports
        \cup SignatureReports \cup BorrowedSignatureReports \cup ForeignReports

(***************************************************************************)
(* The state machine.                                                      *)
(***************************************************************************)
Init ==
    /\ now = StartTime
    /\ balances = [a \in Addr |-> 0]
    /\ lastSubmitTime = [a \in Addr |-> 0]
    /\ servers = <<>>
    /\ events = <<>>
    /\ tokenBalances = [a \in Addr \cup {VPN} |-> IF a = VPN THEN 0 ELSE InitialTokens]
    /\ allowances = [a \in Addr \cup {VPN} |-> IF a = VPN THEN 0 ELSE InitialTokens]
    /\ tx = NoCall
    /\ settled = <<>>
    /\ interfaces = {}
    /\ configs = [id \in VpnIds |-> NoKey]
    /\ inflight = EmptyBag
    /\ reply = NoReply
    /\ sessionClient = [id \in VpnIds |-> NoAddress]

Ledger ==
    \/ \E sender \in Addr, amount \in DepositAmounts : deposit(sender, amount)
    \/ \E sender \in Addr, amount \in WithdrawAmounts : withdraw(sender, amount)
    \/ \E t \in TimePoints : warp(t)
    \/ nextCall

\* successive settlements of plain session reports
Next ==
    \/ /\ tx = NoCall
       /\ \E r \in SessionReports :
             submitUsageReport(r.sender, r.serverUsage, r.clientUsage,
                               r.serverSignature, r.clientSignature)
    \/ Ledger

Spec == Init /\ [][Next]_vars

\* every kind of report, up to the first settlement
NextChecks ==
    \/ /\ tx = NoCall
       /\ Len(events) < MaxChecked
       /\ \E r \in Reports :
             submitUsageReport(r.sender, r.serverUsage, r.clientUsage,
                               r.serverSignature, r.clientSignature)
    \/ Ledger

SpecChecks == Init /\ [][NextChecks]_vars

\* who registers servers
Registrants == {"a1"}

\* the registry beside the ledger, up to the first settlement
NextRegistry ==
    \/ /\ Len(servers) < MaxServers
       /\ \E sender \in Registrants : registerServer(sender, "vpn.example.com:51820", "vpn")
    \/ /\ tx = NoCall
       /\ Len(events) < MaxChecked
       /\ \E r \in SessionReports :
             submitUsageReport(r.sender, r.serverUsage, r.clientUsage,
                               r.serverSignature, r.clientSignature)
    \/ Ledger

SpecRegistry == Init /\ [][NextRegistry]_vars

\* the owners and the endpoints of the servers registered
ServerOwners == {"a1", "a2"}

Endpoints == {"vpn.example.com:51820"}

\* the registry on its own: registrations of the same and of different
\* owners as time passes, beside deposits
NextServers ==
    \/ /\ Len(servers) < MaxRegistered
       /\ \E sender \in ServerOwners, endpoint \in Endpoints :
             registerServer(sender, endpoint, "vpn")
    \/ \E amount \in DepositAmounts : deposit("a2", amount)
    \/ \E t \in TimePoints : warp(t)
    \/ nextCall

SpecServers == Init /\ [][NextServers]_vars

\* the clients of the provider, their WireGuard keys, and for each the other
ClientAddrs == {"a2", "a3"}
WgKey(address) == IF address = "a2" THEN "k2" ELSE "k3"
OtherClient(address) == IF address = "a2" THEN "a3" ELSE "a2"

\* whose name requests of another client come in
Impersonated == {"a2"}

\* the signatures a request for an address comes with: the address's own,
\* none, and for an impersonated address one made by the other client
RequestSignatures(address) ==
    {signMessage(ItIs(address), address), NoSignature}
        \cup (IF address \in Impersonated
              THEN {signMessage(ItIs(address), OtherClient(address))} ELSE {})

\* the record the client's disconnect command makes: the server's address,
\* its own, the bytes its interface counted, its clock
ClientUsage(address) == Usage(ServerAccount, address, 5000, now)

\* the counters wg show reports, inbound and outbound
Counts == {<<4000, 1000>>}

\* how many stop requests are being handled
StopsInflight ==
    BagCardinality([h \in {x \in Handlers : x.kind = "stop"} |-> inflight[h]])

\* the answer to the last request has been read
nextRequest ==
    /\ reply # NoReply
    /\ reply' = NoReply
    /\ UNCHANGED <<interfaces, configs, inflight, sessionClient>>
    /\ ChainUnchanged

\* the last call and the last request have been looked at
Quiet == tx = NoCall /\ reply = NoReply

\* the provider's server under concurrent requests: clients deposit and
\* withdraw, start and stop sessions once the first interval has passed, and
\* the handlers interleave at their awaits
\* the client that withdraws while sessions run
Withdrawers == {"a2"}

\* the vpnId the concurrent requests contend for
ContendedIds == {1}

NextServer ==
    \/ /\ Quiet /\ now >= SubmitInterval
       /\ \E vpnId \in ContendedIds, address \in ClientAddrs :
             \E signature \in RequestSignatures(address) :
                receiveStart(vpnId, WgKey(address), address, signature)
    \/ /\ Quiet
       /\ \E h \in Handlers, rpcFails \in BOOLEAN : startCheckClientValid(h, rpcFails)
    \/ /\ Quiet
       /\ \E h \in Handlers : startVerifySignature(h)
    \/ /\ Quiet
       /\ \E h \in Handlers : startProviderStart(h)
    \/ /\ Quiet /\ now >= SubmitInterval
       /\ Len(events) + StopsInflight < MaxEvents
       /\ \E vpnId \in ContendedIds, address \in ClientAddrs :
             \E signature \in RequestSignatures(address),
                clientUsageRaw \in {serializeUsage(ClientUsage(address)), Malformed} :
                receiveStop(vpnId, address, signature, clientUsageRaw,
                            signUsage(ClientUsage(address), address))
    \/ /\ Quiet
       /\ \E h \in Handlers : stopVerifySignature(h)
    \/ /\ Quiet
       /\ \E h \in Handlers, count \in Counts : stopReadTransfer(h, count[1], count[2])
    \/ /\ Quiet
       /\ \E h \in Handlers, rpcFails \in BOOLEAN : stopSubmit(h, rpcFails)
    \/ /\ Quiet
       /\ \E h \in Handlers : stopProviderStop(h)
    \/ /\ Quiet
       /\ \E sender \in ClientAddrs : deposit(sender, 10000 * BytePrice)
    \/ /\ Quiet
       /\ \E sender \in Withdrawers, amount \in WithdrawAmounts : withdraw(sender, amount)
    \/ /\ Quiet
       /\ warp(SubmitInterval)
    \/ nextCall
    \/ nextRequest

SpecServer == Init /\ [][NextServer]_vars

\* the byte counts and the timestamps of the records clients sign
RecordBytes == {1, 10, 4990, 5000, 6061, UintMax}
RecordTimes(t) == {t, t - 1, t - 21}

\* the records a client's disconnect command signs and sends: made by the
\* client or by another one, for this deployment or for another one
SignedRecords(address) ==
    {[raw |-> serializeUsage(Usage(ServerAccount, address, bytes, time)),
      signature |-> signTypedData(domain, Usage(ServerAccount, address, bytes, time), signer)] :
        bytes \in RecordBytes, time \in RecordTimes(now),
        domain \in {DomainSeparator} \cup OtherDomains,
        signer \in {address, OtherClient(address)}}

\* who holds sessions when records are forwarded
SessionClients == {"a2"}

\* the provider's server handling one request after the other, the stop
\* requests carrying every kind of record
NextRecords ==
    \/ /\ Quiet /\ inflight = EmptyBag /\ now >= SubmitInterval
       /\ \E vpnId \in ContendedIds, address \in SessionClients :
             receiveStart(vpnId, WgKey(address), address, signMessage(ItIs(address), address))
    \/ /\ Quiet
       /\ \E h \in Handlers : startCheckClientValid(h, FALSE)
    \/ /\ Quiet
       /\ \E h \in Handlers : startVerifySignature(h)
    \/ /\ Quiet
       /\ \E h \in Handlers : startProviderStart(h)
    \/ /\ Quiet /\ inflight = EmptyBag /\ now >= SubmitInterval
       /\ Len(events) < MaxEvents
       /\ \E vpnId \in ContendedIds, address \in SessionClients :
             \E record \in SignedRecords(address) :
                receiveStop(vpnId, address, signMessage(ItIs(address), address),
                            record.raw, record.signature)
    \/ /\ Quiet
       /\ \E h \in Handlers : stopVerifySignature(h)
    \/ /\ Quiet
       /\ \E h \in Handlers, count \in Counts : stopReadTransfer(h, count[1], count[2])
    \/ /\ Quiet
       /\ \E h \in Handlers : stopSubmit(h, FALSE)
    \/ /\ Quiet
       /\ \E h \in Handlers : stopProviderStop(h)
    \/ /\ Quiet
       /\ \E sender \in SessionClients : deposit(sender, 10000 * BytePrice)
    \/ /\ Quiet
       /\ \E t \in {SubmitInterval, 2 * SubmitInterval} : warp(t)
    \/ nextCall
    \/ nextRequest

SpecRecords == Init /\ [][NextRecords]_vars

(***************************************************************************)
(* Properties.  A step of submitUsageReport takes tx from NoCall to the    *)
(* call with its outcome; unprimed variables are the storage before the    *)
(* call, primed ones the storage after it.                                 *)
(***************************************************************************)
SubmitStep == tx = NoCall /\ tx'.op = "submitUsageReport"
Accepted == SubmitStep /\ tx'.status = OK
Rejected == SubmitStep /\ tx'.status # OK

\* the parties and the figures of a call
ProviderOf(call) == call.serverUsage.serverAddr
ConsumerOf(call) == call.clientUsage.clientAddr
BillableOf(call) == (call.serverUsage.bytesUsed + call.clientUsage.bytesUsed) \div 2
PriceOf(call) == BillableOf(call) * BytePrice
ToleranceOf(call) == call.serverUsage.bytesUsed \div 100 + 1000
Distance(x, y) == IF x >= y THEN x - y ELSE y - x

RECURSIVE SumOver(_, _)
SumOver(f, S) ==
    IF S = {} THEN 0 ELSE LET x == CHOOSE y \in S : TRUE IN f[x] + SumOver(f, S \ {x})

\* the call just made was a submitUsageReport that ended with status
Submitted(status) == tx.op = "submitUsageReport" /\ tx.status = status

\* C1 (as stated): every successful submitUsageReport lowers the consumer's
\* balance by billableBytes * bytePrice and raises the provider's by the same.
C1_Conservation ==
    [][Accepted =>
         /\ balances[ConsumerOf(tx')] - balances'[ConsumerOf(tx')] = PriceOf(tx')
         /\ balances'[ProviderOf(tx')] - balances[ProviderOf(tx')] = PriceOf(tx')]_vars

\* C1 (amended): between two different identities a successful
\* submitUsageReport moves exactly billableBytes * bytePrice from the consumer
\* to the provider; when provider and consumer are one identity its balance
\* covers the price and is left as it was.
C1_ConservationBetweenTwo ==
    [][Accepted =>
         IF ProviderOf(tx') # ConsumerOf(tx')
         THEN /\ balances[ConsumerOf(tx')] - balances'[ConsumerOf(tx')] = PriceOf(tx')
              /\ balances'[ProviderOf(tx')] - balances[ProviderOf(tx')] = PriceOf(tx')
         ELSE /\ balances[ConsumerOf(tx')] >= PriceOf(tx')
              /\ balances'[ConsumerOf(tx')] = balances[ConsumerOf(tx')]]_vars

C1_Witness ==
    /\ Submitted(OK)
    /\ ProviderOf(tx) # ConsumerOf(tx)
    /\ balances[ProviderOf(tx)] = 5000 * BytePrice
    /\ balances[ConsumerOf(tx)] = 5000 * BytePrice

\* C2: a submitUsageReport that fails a check leaves every balance, every
\* lastSubmitTime entry and the event log as they were; the ledger total is
\* the same after any submitUsageReport (no debit without its credit).
C2_RejectionChangesNothing ==
    [][/\ Rejected => /\ balances' = balances
                      /\ lastSubmitTime' = lastSubmitTime
                      /\ events' = events
       /\ SubmitStep => SumOver(balances', Addr) = SumOver(balances, Addr)]_vars

C2_Witness ==
    /\ Submitted(ErrUsage)
    /\ tx.serverUsage.bytesUsed = 6000
    /\ tx.clientUsage.bytesUsed = 4000
    /\ balances[ConsumerOf(tx)] >= PriceOf(tx)

\* C3: a pair of signed records that was settled is never settled again,
\* whoever sends it and whenever.
C3_NoReplay ==
    [][Accepted =>
         \A i \in 1..Len(settled) :
            ~ /\ settled[i].serverUsage = tx'.serverUsage
              /\ settled[i].clientUsage = tx'.clientUsage
              /\ settled[i].serverSignature = tx'.serverSignature
              /\ settled[i].clientSignature = tx'.clientSignature]_vars

\* an identity that is in no settlement so far
NeverSeen(a) ==
    \A i \in 1..Len(events) : events[i].serverAddr # a /\ events[i].clientAddr # a

\* C4: a settlement at time T sets lastSubmitTime of its provider and its
\* consumer to T; a sender fails with the rate-limit error as long as
\* now < lastSubmitTime[sender] + interval and no longer from then on, when a
\* submission the body accepts succeeds; an identity never seen has
\* lastSubmitTime 0.
C4_RateLimit ==
    [][/\ \A a \in Addr : NeverSeen(a) => lastSubmitTime[a] = 0
       /\ Accepted => /\ lastSubmitTime'[ProviderOf(tx')] = now
                      /\ lastSubmitTime'[ConsumerOf(tx')] = now
       /\ SubmitStep =>
            IF now < lastSubmitTime[tx'.sender] + SubmitInterval
            THEN tx'.status = ErrInterval
            ELSE /\ tx'.status # ErrInterval
                 /\ ( /\ bodyChecks(tx'.sender, tx'.serverUsage, tx'.clientUsage,
                                    tx'.serverSignature, tx'.clientSignature) = OK
                      /\ balances[ConsumerOf(tx')] >= PriceOf(tx') )
                    => tx'.status = OK]_vars

C4_Witness ==
    /\ Submitted(ErrInterval)
    /\ tx.sender \in {ProviderOf(tx), ConsumerOf(tx)}
    /\ lastSubmitTime[tx.sender] > 0
    /\ now = lastSubmitTime[tx.sender] + SubmitInterval - 1

\* C5: a submission is accepted only if the provider and the consumer of
\* its records are both past their interval.
C5_BothEligible ==
    [][Accepted =>
         /\ now >= lastSubmitTime[ProviderOf(tx')] + SubmitInterval
         /\ now >= lastSubmitTime[ConsumerOf(tx')] + SubmitInterval]_vars

\* every check of the call other than the comparison of the byte counts passes
PassesAllButUsage(call) ==
    /\ onlyAfterInterval(call.sender) = OK
    /\ checkSender(call.sender, call.serverUsage, call.clientUsage) = OK
    /\ checkServerAddr(call.serverUsage, call.clientUsage) = OK
    /\ checkClientAddr(call.serverUsage, call.clientUsage) = OK
    /\ checkPositive(call.serverUsage, call.clientUsage) = OK
    /\ checkSkew(call.serverUsage, call.clientUsage) = OK
    /\ checkServerAge(call.serverUsage) = OK
    /\ checkClientAge(call.clientUsage) = OK
    /\ checkServerSignature(call.serverUsage, call.serverSignature) = OK
    /\ checkClientSignature(call.clientUsage, call.clientSignature) = OK
    /\ checkPayment(call.serverUsage, call.clientUsage) = OK
    /\ balances[ConsumerOf(call)] >= PriceOf(call)

\* C6: with positive byte counts p and c and every other check passing, the
\* submission is accepted when |p - c| <= p / 100 + 1000 and fails with the
\* usage-mismatch error otherwise.
C6_ToleranceBand ==
    [][( /\ SubmitStep
         /\ tx'.serverUsage.bytesUsed > 0
         /\ tx'.clientUsage.bytesUsed > 0
         /\ PassesAllButUsage(tx') ) =>
         IF Distance(tx'.serverUsage.bytesUsed, tx'.clientUsage.bytesUsed) <= ToleranceOf(tx')
         THEN tx'.status = OK
         ELSE tx'.status = ErrUsage]_vars

\* C7: a successful settlement logs billableBytes = (p + c) / 2, truncated,
\* and moves billableBytes * bytePrice from the consumer to the provider.
C7_Billing ==
    [][Accepted =>
         /\ events' = Append(events, [serverAddr |-> ProviderOf(tx'),
                                      clientAddr |-> ConsumerOf(tx'),
                                      bytesUsed |-> BillableOf(tx')])
         /\ balances[ConsumerOf(tx')] >= BillableOf(tx') * BytePrice
         /\ balances' =
              [a \in Addr |->
                 balances[a]
                 - (IF a = ConsumerOf(tx') THEN BillableOf(tx') * BytePrice ELSE 0)
                 + (IF a = ProviderOf(tx') THEN BillableOf(tx') * BytePrice ELSE 0)]]_vars

C7_Witness ==
    /\ Submitted(OK)
    /\ tx.serverUsage.bytesUsed = 10000
    /\ tx.clientUsage.bytesUsed = 8900
    /\ events[Len(events)].bytesUsed = 9450
    /\ balances[ProviderOf(tx)] = 9450 * BytePrice

\* every check of the call other than those of the timestamps' sign and
\* distance passes
PassesAllButSkew(call) ==
    /\ onlyAfterInterval(call.sender) = OK
    /\ checkSender(call.sender, call.serverUsage, call.clientUsage) = OK
    /\ checkServerBytes(call.serverUsage) = OK
    /\ checkClientBytes(call.clientUsage) = OK
    /\ checkServerAddr(call.serverUsage, call.clientUsage) = OK
    /\ checkClientAddr(call.serverUsage, call.clientUsage) = OK
    /\ checkServerAge(call.serverUsage) = OK
    /\ checkClientAge(call.clientUsage) = OK
    /\ checkServerSignature(call.serverUsage, call.serverSignature) = OK
    /\ checkClientSignature(call.clientUsage, call.clientSignature) = OK
    /\ checkUsage(call.serverUsage, call.clientUsage) = OK
    /\ checkPayment(call.serverUsage, call.clientUsage) = OK
    /\ balances[ConsumerOf(call)] >= PriceOf(call)

\* C8: with every other check passing, positive timestamps tp and tc are
\* accepted when |tp - tc| <= 20 and fail with the skew error otherwise; a
\* timestamp 0 is rejected.
C8_TimestampSkew ==
    [][(SubmitStep /\ PassesAllButSkew(tx')) =>
         IF tx'.serverUsage.timestamp > 0 /\ tx'.clientUsage.timestamp > 0
         THEN IF Distance(tx'.serverUsage.timestamp, tx'.clientUsage.timestamp) <= 20
              THEN tx'.status = OK
              ELSE tx'.status = ErrSkew
         ELSE tx'.status # OK]_vars

\* a record of the call is dated before now - interval
Stale(call) ==
    \/ call.serverUsage.timestamp < now - SubmitInterval
    \/ call.clientUsage.timestamp < now - SubmitInterval

\* the checks made before those of the records' age pass
PassesUpToSkew(call) ==
    /\ onlyAfterInterval(call.sender) = OK
    /\ checkSender(call.sender, call.serverUsage, call.clientUsage) = OK
    /\ checkServerBytes(call.serverUsage) = OK
    /\ checkClientBytes(call.clientUsage) = OK
    /\ checkServerAddr(call.serverUsage, call.clientUsage) = OK
    /\ checkClientAddr(call.serverUsage, call.clientUsage) = OK
    /\ checkPositive(call.serverUsage, call.clientUsage) = OK
    /\ checkSkew(call.serverUsage, call.clientUsage) = OK

\* C9: a submission with a record dated before now - interval is never
\* accepted and changes nothing; it fails with the too-old error of that
\* record once the checks before it pass; records dated now - interval or
\* later never fail with that error.
C9_StaleRejected ==
    [][SubmitStep =>
         /\ Stale(tx') => /\ tx'.status # OK
                          /\ balances' = balances
                          /\ lastSubmitTime' = lastSubmitTime
                          /\ events' = events
         /\ (Stale(tx') /\ PassesUpToSkew(tx')) =>
               tx'.status = IF tx'.serverUsage.timestamp < now - SubmitInterval
                            THEN ErrServerOld ELSE ErrClientOld
         /\ ~Stale(tx') => tx'.status \notin {ErrServerOld, ErrClientOld}]_vars

C9_Witness ==
    /\ Submitted(ErrClientOld)
    /\ tx.serverUsage.timestamp = now - SubmitInterval
    /\ tx.clientUsage.timestamp = now - SubmitInterval - 1

\* C10: a settlement whose price exceeds the consumer's balance is never
\* accepted and leaves balances and lastSubmitTime as they were; it fails
\* with the insufficient-balance error once every check before the payment
\* passes.
C10_InsufficientBalance ==
    [][(SubmitStep /\ PriceOf(tx') > balances[ConsumerOf(tx')]) =>
         /\ tx'.status # OK
         /\ balances' = balances
         /\ lastSubmitTime' = lastSubmitTime
         /\ validation(tx'.sender, tx'.serverUsage, tx'.clientUsage,
                       tx'.serverSignature, tx'.clientSignature) = OK
              => tx'.status = ErrBalance]_vars

C10_Witness ==
    /\ Submitted(ErrBalance)
    /\ BillableOf(tx) = 1000
    /\ balances[ConsumerOf(tx)] = 1000 * BytePrice - 1
    /\ balances[ProviderOf(tx)] = 0

\* the sender is neither the provider of the provider's record nor the
\* consumer of the consumer's record
ThirdParty(call) ==
    /\ call.sender # call.serverUsage.serverAddr
    /\ call.sender # call.clientUsage.clientAddr

\* C11: a submitUsageReport is accepted only when its sender is the provider
\* of the provider's record or the consumer of the consumer's record; a call
\* by a third identity is rejected and changes nothing, with the
\* unauthorized-sender error once the sender is past its interval.
C11_CallerAuthorization ==
    [][SubmitStep =>
         /\ tx'.status = OK => ~ThirdParty(tx')
         /\ ThirdParty(tx') =>
              /\ tx'.status # OK
              /\ balances' = balances
              /\ lastSubmitTime' = lastSubmitTime
              /\ events' = events
              /\ onlyAfterInterval(tx'.sender) = OK => tx'.status = ErrSender]_vars

\* a third identity sends two validly signed, payable records and is refused
C11_Witness ==
    /\ Submitted(ErrSender)
    /\ ThirdParty(tx)
    /\ tx.serverSignature = signUsage(tx.serverUsage, ProviderOf(tx))
    /\ tx.clientSignature = signUsage(tx.clientUsage, ConsumerOf(tx))
    /\ tx.serverUsage.timestamp = now
    /\ balances[ConsumerOf(tx)] >= PriceOf(tx)

\* the checks made before those of the signatures pass
PassesUpToAge(call) ==
    /\ PassesUpToSkew(call)
    /\ checkServerAge(call.serverUsage) = OK
    /\ checkClientAge(call.clientUsage) = OK

\* a record and the records that differ from it in exactly one field
Variants(u) ==
    {u,
     [u EXCEPT !.bytesUsed = @ + 1],
     [u EXCEPT !.timestamp = @ + 1],
     [u EXCEPT !.serverAddr = IF @ = "a1" THEN "a2" ELSE "a1"],
     [u EXCEPT !.clientAddr = IF @ = "a1" THEN "a2" ELSE "a1"]}

\* C12: a settlement is accepted only with the provider's signature over the
\* provider's record and the consumer's signature over the consumer's
\* record; any other signature fails with the invalid-signature error of its
\* role once the earlier checks pass; a signature verifies against a record
\* only if it was made over that very record, by the identity recovered.
C12_SignatureBinding ==
    [][SubmitStep =>
         /\ tx'.status = OK =>
              /\ tx'.serverSignature = signUsage(tx'.serverUsage, ProviderOf(tx'))
              /\ tx'.clientSignature = signUsage(tx'.clientUsage, ConsumerOf(tx'))
         /\ ( /\ PassesUpToAge(tx')
              /\ tx'.serverSignature # signUsage(tx'.serverUsage, ProviderOf(tx')) )
            => tx'.status = ErrServerSig
         /\ ( /\ PassesUpToAge(tx')
              /\ tx'.serverSignature = signUsage(tx'.serverUsage, ProviderOf(tx'))
              /\ tx'.clientSignature # signUsage(tx'.clientUsage, ConsumerOf(tx')) )
            => tx'.status = ErrClientSig
         /\ \A u \in {tx'.serverUsage, tx'.clientUsage}, a \in Addr :
              \A v \in Variants(u) : (verifySignature(v, signUsage(u, a)) = a) <=> (u = v)]_vars

\* the consumer's own signature, made over a record that differs from the
\* submitted one in bytesUsed only, is refused
C12_Witness ==
    /\ Submitted(ErrClientSig)
    /\ tx.clientUsage.bytesUsed = 5001
    /\ tx.clientSignature =
          signUsage([tx.clientUsage EXCEPT !.bytesUsed = 5000], ConsumerOf(tx))
    /\ tx.serverSignature = signUsage(tx.serverUsage, ProviderOf(tx))

\* C13: the digest of every signature an accepted settlement carries binds
\* the name "Usage", the version "1", the chain id and the address of the
\* deployment; a signature made for a deployment at another address or on
\* another chain, which that deployment's verification accepts, fails here
\* with the invalid-signature error of its role once the earlier checks pass.
C13_DomainSeparation ==
    [][SubmitStep =>
         /\ tx'.status = OK =>
              \A sig \in {tx'.serverSignature, tx'.clientSignature} :
                 /\ Len(sig.digest) = 3
                 /\ sig.digest[2] = [name |-> "Usage", version |-> "1",
                                     chainId |-> ChainId, verifyingContract |-> VPN]
         /\ \A d \in OtherDomains :
              /\ ( /\ PassesUpToAge(tx')
                   /\ tx'.serverSignature = signTypedData(d, tx'.serverUsage, ProviderOf(tx')) )
                 => /\ verifySignatureAt(d, tx'.serverUsage, tx'.serverSignature) = ProviderOf(tx')
                    /\ tx'.status = ErrServerSig
              /\ ( /\ PassesUpToAge(tx')
                   /\ tx'.serverSignature = signUsage(tx'.serverUsage, ProviderOf(tx'))
                   /\ tx'.clientSignature = signTypedData(d, tx'.clientUsage, ConsumerOf(tx')) )
                 => /\ verifySignatureAt(d, tx'.clientUsage, tx'.clientSignature) = ConsumerOf(tx')
                    /\ tx'.status = ErrClientSig]_vars

\* the provider's signature for the deployment at another address is refused
\* although the consumer could pay
C13_Witness ==
    /\ Submitted(ErrServerSig)
    /\ tx.serverSignature =
          signTypedData([DomainSeparator EXCEPT !.verifyingContract = "vpn2"],
                        tx.serverUsage, ProviderOf(tx))
    /\ tx.clientSignature = signUsage(tx.clientUsage, ConsumerOf(tx))
    /\ balances[ConsumerOf(tx)] >= PriceOf(tx)

\* a record of the call reports no bytes
ZeroUsage(call) == call.serverUsage.bytesUsed = 0 \/ call.clientUsage.bytesUsed = 0

\* C14: both records of an accepted settlement have bytesUsed > 0; a
\* submission with a record of 0 bytes is rejected and changes nothing, with
\* the zero-usage error of the first such record once the sender is
\* authorized and past its interval.
C14_ZeroUsage ==
    [][SubmitStep =>
         /\ tx'.status = OK => /\ tx'.serverUsage.bytesUsed > 0
                               /\ tx'.clientUsage.bytesUsed > 0
                               /\ events'[Len(events')].bytesUsed > 0
         /\ ZeroUsage(tx') =>
              /\ tx'.status # OK
              /\ balances' = balances
              /\ lastSubmitTime' = lastSubmitTime
              /\ events' = events
              /\ ( /\ onlyAfterInterval(tx'.sender) = OK
                   /\ checkSender(tx'.sender, tx'.serverUsage, tx'.clientUsage) = OK )
                 => tx'.status = IF tx'.serverUsage.bytesUsed = 0
                                 THEN ErrServerZero ELSE ErrClientZero]_vars

\* the consumer's record reports 0 bytes against 5000 and is refused as zero
\* usage, both signatures being valid
C14_Witness ==
    /\ Submitted(ErrClientZero)
    /\ tx.serverUsage.bytesUsed = 5000
    /\ tx.clientUsage.bytesUsed = 0
    /\ tx.clientSignature = signUsage(tx.clientUsage, ConsumerOf(tx))
    /\ balances[ConsumerOf(tx)] >= PriceOf(tx)

\* the two records of the call name different providers or different consumers
AddressMismatch(call) ==
    \/ call.serverUsage.serverAddr # call.clientUsage.serverAddr
    \/ call.serverUsage.clientAddr # call.clientUsage.clientAddr

\* the record the signature was made over names provider s and consumer c
\* (fields 2 and 3 of the struct hash in the digest)
SignedFor(signature, s, c) ==
    /\ signature.digest[3][2] = s
    /\ signature.digest[3][3] = c

\* C15: the two records of an accepted settlement agree on the provider and
\* on the consumer, both signatures were made for that provider and that
\* consumer, and only the balances of these two identities move; a
\* submission whose records differ in either field is rejected and changes
\* nothing, with the address-mismatch error of the first field that differs
\* once the checks before it pass.
C15_SameSession ==
    [][SubmitStep =>
         /\ tx'.status = OK =>
              /\ ~AddressMismatch(tx')
              /\ SignedFor(tx'.serverSignature, ProviderOf(tx'), ConsumerOf(tx'))
              /\ SignedFor(tx'.clientSignature, ProviderOf(tx'), ConsumerOf(tx'))
              /\ \A a \in Addr : balances'[a] # balances[a] =>
                    a \in {ProviderOf(tx'), ConsumerOf(tx')}
         /\ AddressMismatch(tx') =>
              /\ tx'.status # OK
              /\ balances' = balances
              /\ lastSubmitTime' = lastSubmitTime
              /\ events' = events
              /\ ( /\ onlyAfterInterval(tx'.sender) = OK
                   /\ checkSender(tx'.sender, tx'.serverUsage, tx'.clientUsage) = OK
                   /\ ~ZeroUsage(tx') )
                 => tx'.status = IF tx'.serverUsage.serverAddr # tx'.clientUsage.serverAddr
                                 THEN ErrServerAddr ELSE ErrClientAddr]_vars

\* the consumer's record names another consumer than the provider's record
\* does; both are validly signed and the submission is refused
C15_Witness ==
    /\ Submitted(ErrClientAddr)
    /\ tx.serverUsage.serverAddr = tx.clientUsage.serverAddr
    /\ tx.serverUsage.clientAddr # tx.clientUsage.clientAddr
    /\ tx.serverSignature = signUsage(tx.serverUsage, ProviderOf(tx))
    /\ tx.clientSignature = signUsage(tx.clientUsage, ConsumerOf(tx))
    /\ balances[ConsumerOf(tx)] >= PriceOf(tx)

\* C16: over every step (a call of the contract, or time moving forward)
\* lastSubmitTime of every identity stays or grows, and it never lies ahead
\* of the ledger time.
C16_LastSubmitTimeMonotone ==
    [][/\ now' >= now
       /\ \A a \in Addr : /\ lastSubmitTime'[a] >= lastSubmitTime[a]
                          /\ lastSubmitTime'[a] <= now']_vars

\* a provider settled twice: with one consumer first, with another later, so
\* that its entry was written a second time with a later time
C16_Witness ==
    /\ Submitted(OK)
    /\ Len(events) = 2
    /\ events[1].serverAddr = events[2].serverAddr
    /\ events[1].clientAddr # events[2].clientAddr
    /\ events[1].clientAddr # events[1].serverAddr
    /\ lastSubmitTime[events[1].clientAddr] > 0
    /\ lastSubmitTime[events[1].clientAddr] < lastSubmitTime[events[1].serverAddr]
    /\ lastSubmitTime[events[1].serverAddr] = now

\* C17: lastSubmitTime changes in no step but an accepted submitUsageReport,
\* which sets the entries of the provider and of the consumer to the ledger
\* time and no other entry; deposit, withdraw, registerServer and every
\* rejected submission leave it as it was.
C17_LastSubmitTimeFrame ==
    [][/\ lastSubmitTime' # lastSubmitTime => Accepted
       /\ Accepted =>
            lastSubmitTime' = [a \in Addr |->
                                 IF a \in {ProviderOf(tx'), ConsumerOf(tx')}
                                 THEN now ELSE lastSubmitTime[a]]
       /\ Rejected => lastSubmitTime' = lastSubmitTime
       /\ (tx = NoCall /\ tx'.op \in {"deposit", "withdraw", "registerServer"})
            => lastSubmitTime' = lastSubmitTime]_vars

\* the provider sent the report and the consumer's entry was set as well,
\* with a server in the registry
C17_Witness ==
    /\ Submitted(OK)
    /\ tx.sender = ProviderOf(tx)
    /\ ConsumerOf(tx) # ProviderOf(tx)
    /\ lastSubmitTime[ConsumerOf(tx)] = now
    /\ lastSubmitTime[ProviderOf(tx)] = now
    /\ now > 0
    /\ Len(servers) > 0

\* C18: an accepted submitUsageReport appends exactly one event {provider,
\* consumer, billableBytes} to the log; no other step touches the log; the
\* log only grows at its end and holds as many events as there were
\* accepted settlements.
C18_OneEventPerSettlement ==
    [][/\ Accepted => events' = events \o << [serverAddr |-> ProviderOf(tx'),
                                              clientAddr |-> ConsumerOf(tx'),
                                              bytesUsed |-> BillableOf(tx')] >>
       /\ ~Accepted => events' = events
       /\ Len(events') >= Len(events)
       /\ SubSeq(events', 1, Len(events)) = events
       /\ Len(events') = Len(settled')]_vars

\* the second settlement logged the second event
C18_Witness ==
    /\ Submitted(OK)
    /\ Len(settled) = 2
    /\ Len(events) = 2
    /\ events[2] = [serverAddr |-> ProviderOf(tx), clientAddr |-> ConsumerOf(tx),
                    bytesUsed |-> 5000]
    /\ settled[2].serverUsage = tx.serverUsage

\* C19: every ledger balance is at least 0 after every step; a withdraw of
\* more than the sender's balance fails with the insufficient-balance error
\* and leaves every balance as it was; a settlement priced above the
\* consumer's balance is rejected and leaves every balance as it was, with
\* the insufficient-balance error once every check before the payment
\* passes.
C19_NoNegativeBalance ==
    [][/\ \A a \in Addr : balances[a] >= 0 /\ balances'[a] >= 0
       /\ ( /\ tx = NoCall
            /\ tx'.op = "withdraw"
            /\ tx'.amount > balances[tx'.sender] )
          => /\ tx'.status = ErrBalance
             /\ balances' = balances
             /\ tokenBalances' = tokenBalances
       /\ (SubmitStep /\ PriceOf(tx') > balances[ConsumerOf(tx')])
          => /\ tx'.status # OK
             /\ balances' = balances
             /\ validation(tx'.sender, tx'.serverUsage, tx'.clientUsage,
                           tx'.serverSignature, tx'.clientSignature) = OK
                  => tx'.status = ErrBalance]_vars

\* a withdraw of more than the positive balance left is refused and the
\* balance stays
C19_Witness ==
    /\ tx.op = "withdraw"
    /\ tx.status = ErrBalance
    /\ balances[tx.sender] > 0
    /\ balances[tx.sender] < tx.amount

\* the sum of all ledger balances
LedgerTotal(bal) == SumOver(bal, Addr)

\* C20: the sum of all ledger balances grows by amount in a successful
\* deposit, falls by amount in a successful withdraw, and is the same after
\* every other step: every submitUsageReport, accepted or rejected and also
\* between an identity and itself, every failed deposit or withdraw.
C20_TotalChangesByDepositAndWithdraw ==
    [][/\ LedgerTotal(balances') - LedgerTotal(balances) =
            IF tx = NoCall /\ tx'.op = "deposit" /\ tx'.status = OK THEN tx'.amount
            ELSE IF tx = NoCall /\ tx'.op = "withdraw" /\ tx'.status = OK THEN 0 - tx'.amount
            ELSE 0
       /\ SubmitStep => LedgerTotal(balances') = LedgerTotal(balances)]_vars

\* an identity settled with itself and the total is what was deposited
C20_Witness ==
    /\ Submitted(OK)
    /\ ProviderOf(tx) = ConsumerOf(tx)
    /\ LedgerTotal(balances) = tokenBalances[VPN]
    /\ LedgerTotal(balances) >= 10000 * BytePrice

\* a step of registerServer
RegisterStep == tx = NoCall /\ tx'.op = "registerServer"

\* C21: registerServer always succeeds and appends exactly one record
\* {endpoint, name, owner = caller, registrationTime = ledger time} at the
\* end of the list; no other step touches the list; across every step the
\* old list is a prefix of the new one, so every list getServers returned
\* earlier is a prefix of the one it returns now.
C21_RegistryAppendOnly ==
    [][/\ RegisterStep =>
            /\ tx'.status = OK
            /\ Len(servers') = Len(servers) + 1
            /\ servers'[Len(servers')] = [endpoint |-> tx'.endpoint, name |-> tx'.name,
                                          owner |-> tx'.sender, registrationTime |-> now]
       /\ ~RegisterStep => servers' = servers
       /\ Len(servers') >= Len(servers)
       /\ SubSeq(servers', 1, Len(servers)) = servers
       /\ getServers' = servers']_vars

\* the same owner registered the same endpoint twice at one time and both
\* records are kept, followed by a later record of another owner
C21_Witness ==
    /\ tx # NoCall
    /\ tx.op = "registerServer"
    /\ Len(servers) = 3
    /\ servers[1] = servers[2]
    /\ servers[3].owner # servers[1].owner
    /\ servers[3].owner = tx.sender
    /\ servers[3].registrationTime > servers[1].registrationTime
    /\ servers[3].registrationTime = now

\* a step of deposit
DepositStep == tx = NoCall /\ tx'.op = "deposit"

\* the token refuses to move the amount from the owner to the contract
TokenRefuses(owner, amount) ==
    \/ allowances[owner] # UintMax /\ allowances[owner] < amount
    \/ tokenBalances[owner] < amount

\* C22: a deposit of 0 fails; a successful deposit has amount > 0, adds
\* exactly the amount to the caller's ledger balance and to no other, and
\* moves exactly the amount of tokens from the caller to the contract; a
\* deposit of 0 or one the token refuses changes no ledger balance and no
\* token balance.
C22_Deposit ==
    [][DepositStep =>
        LET sender == tx'.sender
            amount == tx'.amount
        IN  /\ amount = 0 => tx'.status = ErrDeposit
            /\ amount > 0 /\ TokenRefuses(sender, amount) => tx'.status # OK
            /\ amount > 0 /\ ~TokenRefuses(sender, amount)
                    /\ balances[sender] + amount <= UintMax => tx'.status = OK
            /\ tx'.status = OK =>
                  /\ amount > 0
                  /\ balances'[sender] = balances[sender] + amount
                  /\ \A a \in DOMAIN balances : a # sender => balances'[a] = balances[a]
                  /\ tokenBalances'[sender] = tokenBalances[sender] - amount
                  /\ tokenBalances'[VPN] = tokenBalances[VPN] + amount
                  /\ \A a \in DOMAIN tokenBalances \ {sender, VPN} :
                        tokenBalances'[a] = tokenBalances[a]
            /\ tx'.status # OK => balances' = balances /\ tokenBalances' = tokenBalances]_vars

\* a deposit the token refused, made by an identity whose earlier deposit
\* of the same amount was credited
C22_Witness ==
    /\ tx # NoCall
    /\ tx.op = "deposit"
    /\ tx.amount > 0
    /\ tx.status = ErrAllowance
    /\ balances[tx.sender] = tx.amount
    /\ tokenBalances[VPN] >= tx.amount

\* a step of withdraw
WithdrawStep == tx = NoCall /\ tx'.op = "withdraw"

\* the amounts around an identity's ledger balance
AroundBalance(a) == {0, balances[a], balances[a] + 1} \cap 0..UintMax

\* C23: a withdrawal succeeds exactly when the caller's ledger balance is
\* at least the amount; a success takes exactly the amount from the
\* caller's ledger balance, adds exactly the amount to the caller's token
\* balance and changes no other identity's ledger balance; a failure
\* changes neither. The same holds of the outcome of withdrawing 0, the
\* whole balance, and one unit more than the balance.
C23_Withdraw ==
    [][/\ WithdrawStep =>
            LET sender == tx'.sender
                amount == tx'.amount
            IN  /\ tx'.status = OK <=> balances[sender] >= amount
                /\ tx'.status = OK =>
                      /\ balances'[sender] = balances[sender] - amount
                      /\ tokenBalances'[sender] = tokenBalances[sender] + amount
                      /\ \A a \in DOMAIN balances : a # sender => balances'[a] = balances[a]
                /\ tx'.status # OK => balances' = balances /\ tokenBalances' = tokenBalances
       /\ \A a \in Addr : \A amount \in AroundBalance(a) :
            LET out == withdrawOutcome(a, amount)
            IN  /\ out.status = OK <=> balances[a] >= amount
                /\ out.status = OK =>
                      /\ out.balances = [balances EXCEPT ![a] = balances[a] - amount]
                      /\ out.tokenBalances[a] = tokenBalances[a] + amount]_vars

\* a withdrawal that succeeded and left less than its amount on the ledger:
\* the caller holds the tokens again, while another identity keeps a balance
C23_Witness ==
    /\ tx # NoCall
    /\ tx.op = "withdraw"
    /\ tx.status = OK
    /\ tx.amount > 0
    /\ balances[tx.sender] < tx.amount
    /\ tokenBalances[tx.sender] >= tx.amount
    /\ \E a \in Addr \ {tx.sender} : balances[a] > 0

\* the sender's interval since its last accepted settlement has not passed
TooSoon(call) == now < lastSubmitTime[call.sender] + SubmitInterval

\* a signature of the call does not verify as its record's party
BadSignature(call) ==
    \/ checkServerSignature(call.serverUsage, call.serverSignature) # OK
    \/ checkClientSignature(call.clientUsage, call.clientSignature) # OK

\* the errors of the reconciliation of the two records
ReconciliationErrors ==
    {ErrServerAddr, ErrClientAddr, ErrServerZero, ErrClientZero, ErrPositive, ErrSkew,
     ErrServerOld, ErrClientOld, ErrUsage}

\* C24: a rejected submission reports the failure of the earliest failing
\* step in the order caller authorization, rate limit, signature
\* verification, reconciliation, ledger transfer: an unauthorized sender is
\* reported as such whatever else fails, an authorized sender inside its
\* interval gets the rate-limit error, an authorized and eligible sender with
\* a bad signature gets a signature error, and a reconciliation error or the
\* balance error is reported only when every earlier step passes.
C24_FailurePrecedence ==
    [][Rejected /\ tx'.status # Panic =>
         /\ ThirdParty(tx') => tx'.status = ErrSender
         /\ ~ThirdParty(tx') /\ TooSoon(tx') => tx'.status = ErrInterval
         /\ ~ThirdParty(tx') /\ ~TooSoon(tx') /\ BadSignature(tx') =>
               tx'.status \in {ErrServerSig, ErrClientSig}
         /\ tx'.status \in ReconciliationErrors =>
               ~ThirdParty(tx') /\ ~TooSoon(tx') /\ ~BadSignature(tx')
         /\ tx'.status = ErrBalance =>
               ~ThirdParty(tx') /\ ~TooSoon(tx') /\ ~BadSignature(tx')]_vars

\* every check of the call made before the payment is computed passes
PassesBeforePayment(call) ==
    /\ onlyAfterInterval(call.sender) = OK
    /\ bodyChecks(call.sender, call.serverUsage, call.clientUsage, call.serverSignature,
                  call.clientSignature) \in {OK, Panic}
    /\ checkUsage(call.serverUsage, call.clientUsage) = OK
    /\ checkSkew(call.serverUsage, call.clientUsage) = OK
    /\ checkServerAge(call.serverUsage) = OK

\* a sum or a product the submission computes exceeds the integer width
Overflows(call) ==
    \/ call.serverUsage.bytesUsed + call.clientUsage.bytesUsed > UintMax
    \/ BillableOf(call) * BytePrice > UintMax
    \/ call.clientUsage.timestamp + 20 > UintMax
    \/ call.clientUsage.bytesUsed + ToleranceOf(call) > UintMax
    \/ lastSubmitTime[call.sender] + SubmitInterval > UintMax

\* the ledger with the provider's balance at the top of the range and the
\* consumer holding the price of the call
FullLedger(call) ==
    [a \in Addr |-> IF a = ProviderOf(call) THEN UintMax
                    ELSE IF a = ConsumerOf(call) THEN PriceOf(call) ELSE 0]

\* C25: a submission in which p + c, billableBytes * bytePrice, or an
\* addition to a timestamp or to a byte count exceeds the integer width is
\* never accepted and changes nothing, and fails with the arithmetic panic
\* when every check before the payment passes; an accepted settlement moves
\* the amount computed without wrapping and leaves every balance within the
\* width; a payment whose credit would exceed the width fails.
C25_NoWraparound ==
    [][SubmitStep =>
         /\ Overflows(tx') =>
              /\ tx'.status # OK
              /\ balances' = balances
              /\ lastSubmitTime' = lastSubmitTime
              /\ events' = events
              /\ tokenBalances' = tokenBalances
         /\ PassesBeforePayment(tx')
              /\ (\/ tx'.serverUsage.bytesUsed + tx'.clientUsage.bytesUsed > UintMax
                  \/ BillableOf(tx') * BytePrice > UintMax) => tx'.status = Panic
         /\ tx'.status = OK =>
              /\ PriceOf(tx') <= UintMax
              /\ events'[Len(events')].bytesUsed = BillableOf(tx')
              /\ ProviderOf(tx') # ConsumerOf(tx') =>
                    /\ balances'[ConsumerOf(tx')] = balances[ConsumerOf(tx')] - PriceOf(tx')
                    /\ balances'[ProviderOf(tx')] = balances[ProviderOf(tx')] + PriceOf(tx')
         /\ \A a \in Addr : balances'[a] \in 0..UintMax
         /\ ProviderOf(tx') # ConsumerOf(tx') /\ PriceOf(tx') \in 1..UintMax =>
              payToServer(FullLedger(tx'), ProviderOf(tx'), ConsumerOf(tx'),
                          PriceOf(tx')).status = Panic]_vars

\* a submission whose byte counts add up beyond the integer width, rejected
\* with the arithmetic panic while the consumer holds a deposit
C25_Witness ==
    /\ tx # NoCall
    /\ tx.op = "submitUsageReport"
    /\ tx.status = Panic
    /\ tx.serverUsage.bytesUsed + tx.clientUsage.bytesUsed > UintMax
    /\ tx.clientUsage.bytesUsed + ToleranceOf(tx) <= UintMax
    /\ balances[ConsumerOf(tx)] > 0
    /\ events = <<>>

\* the identities a call names as provider and consumer, and its sender
PartiesOf(call) == {ProviderOf(call), ConsumerOf(call), call.sender}

\* the outcome of the call's submitUsageReport on the current storage
OutcomeOf(call) ==
    submitOutcome(call.sender, call.serverUsage, call.clientUsage, call.serverSignature,
                  call.clientSignature)

\* the valid submissions that could have been made in place of, before or
\* after the one just made, for a pair of identities disjoint from its pair
DisjointValid(call) ==
    {other \in SessionReports :
        /\ PartiesOf(other) \cap PartiesOf(call) = {}
        /\ OutcomeOf(other).status = OK}

\* C26: when a submission A is accepted and a submission B for a disjoint
\* pair of identities is valid at the same ledger time, B is still valid
\* after A and leaves, after A, exactly what each of the two leaves alone:
\* A's balances and lastSubmitTime entries for A's identities, B's for B's
\* identities, every other entry as before, and the events of both. The
\* result does not mention the order, and B then A is the same statement
\* with the two exchanged, so both orders end in the same balances,
\* lastSubmitTime entries and set of events.
C26_DisjointPairsCommute ==
    [][Accepted =>
         \A other \in DisjointValid(tx') :
            LET alone == OutcomeOf(other)
                both == OutcomeOf(other)'
            IN  /\ both.status = OK
                /\ \A a \in Addr :
                      /\ a \in PartiesOf(tx') =>
                            /\ both.balances[a] = balances'[a]
                            /\ both.lastSubmitTime[a] = lastSubmitTime'[a]
                            /\ alone.balances[a] = balances[a]
                            /\ alone.lastSubmitTime[a] = lastSubmitTime[a]
                      /\ a \in PartiesOf(other) =>
                            /\ both.balances[a] = alone.balances[a]
                            /\ both.lastSubmitTime[a] = alone.lastSubmitTime[a]
                            /\ balances'[a] = balances[a]
                            /\ lastSubmitTime'[a] = lastSubmitTime[a]
                      /\ a \notin PartiesOf(tx') \cup PartiesOf(other) =>
                            /\ both.balances[a] = balances[a]
                            /\ both.lastSubmitTime[a] = lastSubmitTime[a]
                /\ Len(both.events) = Len(events) + 2
                /\ {both.events[i] : i \in 1..Len(both.events)} =
                      {events'[i] : i \in 1..Len(events')}
                         \cup {alone.events[i] : i \in 1..Len(alone.events)}]_vars

\* two settlements of disjoint pairs accepted at the same ledger time, both
\* of them billed
C26_Witness ==
    /\ Len(settled) = 2
    /\ PartiesOf(settled[1]) \cap PartiesOf(settled[2]) = {}
    /\ Len(events) = 2
    /\ events[1].bytesUsed > 0 /\ events[2].bytesUsed > 0
    /\ lastSubmitTime[ProviderOf(settled[1])] = now
    /\ lastSubmitTime[ConsumerOf(settled[1])] = now
    /\ lastSubmitTime[ProviderOf(settled[2])] = now
    /\ lastSubmitTime[ConsumerOf(settled[2])] = now
    /\ balances[ProviderOf(settled[1])] > 0

\* C27: registerServer changes the server list and no balance, no
\* lastSubmitTime entry and no event; deposit and withdraw change, of the
\* contract's storage, only the caller's ledger balance; submitUsageReport
\* changes only the balances and the lastSubmitTime entries of the provider
\* and the consumer named in the records, never the server list, a third
\* identity's entry or a token balance.
C27_Frame ==
    [][/\ RegisterStep =>
            /\ servers' # servers
            /\ balances' = balances
            /\ lastSubmitTime' = lastSubmitTime
            /\ events' = events
            /\ tokenBalances' = tokenBalances
       /\ DepositStep \/ WithdrawStep =>
            /\ \A a \in Addr \ {tx'.sender} : balances'[a] = balances[a]
            /\ lastSubmitTime' = lastSubmitTime
            /\ servers' = servers
            /\ events' = events
            /\ \A a \in Addr \ {tx'.sender} : tokenBalances'[a] = tokenBalances[a]
       /\ SubmitStep =>
            /\ servers' = servers
            /\ tokenBalances' = tokenBalances
            /\ \A a \in Addr \ {ProviderOf(tx'), ConsumerOf(tx')} :
                  /\ balances'[a] = balances[a]
                  /\ lastSubmitTime'[a] = lastSubmitTime[a]
            /\ tx'.status = OK /\ ProviderOf(tx') # ConsumerOf(tx') =>
                  /\ balances'[ProviderOf(tx')] # balances[ProviderOf(tx')]
                  /\ balances'[ConsumerOf(tx')] # balances[ConsumerOf(tx')]]_vars

\* a settlement accepted with a server registered: a third identity keeps
\* its deposit and has never submitted, and the list holds the one record
C27_Witness ==
    /\ tx # NoCall
    /\ tx.op = "submitUsageReport"
    /\ tx.status = OK
    /\ Len(servers) = 1
    /\ servers[1].registrationTime < now
    /\ \E a \in Addr \ {ProviderOf(tx), ConsumerOf(tx)} :
          balances[a] > 0 /\ lastSubmitTime[a] = 0

\* C28: getMaxUsage(user) is the integer quotient of the user's balance by
\* the byte price, the largest number of bytes the balance pays for; every
\* accepted settlement bills at most getMaxUsage(consumer) bytes as
\* evaluated just before it, and a submission that fails for want of
\* balance bills more than that.
C28_MaxUsage ==
    [][/\ \A a \in Addr :
            /\ getMaxUsage(a) \in 0..UintMax
            /\ getMaxUsage(a) * BytePrice <= balances[a]
            /\ balances[a] < (getMaxUsage(a) + 1) * BytePrice
       /\ Accepted => BillableOf(tx') <= getMaxUsage(ConsumerOf(tx'))
       /\ SubmitStep /\ tx'.status = ErrBalance =>
              BillableOf(tx') > getMaxUsage(ConsumerOf(tx'))]_vars

\* a settlement of 9450 bytes accepted from a consumer whose deposit paid
\* for 10000, leaving a balance that pays for 550
C28_Witness ==
    /\ Submitted(OK)
    /\ BillableOf(tx) = 9450
    /\ ProviderOf(tx) # ConsumerOf(tx)
    /\ getMaxUsage(ConsumerOf(tx)) = 550
    /\ getMaxUsage(ProviderOf(tx)) >= 9450
    /\ \E a \in Addr : balances[a] % BytePrice # 0 /\ getMaxUsage(a) = 999

\* a record of the call is dated more than one interval after now
DatedAhead(call) ==
    \/ call.serverUsage.timestamp > now + SubmitInterval
    \/ call.clientUsage.timestamp > now + SubmitInterval

\* C29: no accepted settlement holds a record dated more than one interval
\* before or after the ledger time of the submission; a submission with a
\* record dated later than now + interval is rejected.
C29_TimestampWindow ==
    [][SubmitStep =>
         /\ tx'.status = OK => ~Stale(tx') /\ ~DatedAhead(tx')
         /\ DatedAhead(tx') => tx'.status # OK]_vars

\* C30: in every state reached by deposits, withdrawals and submissions
\* the tokens the contract holds equal the sum of the ledger balances, so
\* the withdrawal of its whole ledger balance succeeds for every identity
\* and pays it out in tokens.
C30_Solvency ==
    /\ tokenBalances[VPN] = LedgerTotal(balances)
    /\ \A a \in Addr :
          LET out == withdrawOutcome(a, balances[a])
          IN  /\ out.status = OK
              /\ out.balances[a] = 0
              /\ out.tokenBalances[a] = tokenBalances[a] + balances[a]
              /\ out.tokenBalances[VPN] = LedgerTotal(out.balances)

\* a provider that never deposited withdraws what two settlements earned
\* it, while the contract still holds the rest of the ledger
C30_Witness ==
    /\ tx # NoCall
    /\ tx.op = "withdraw"
    /\ tx.status = OK
    /\ Len(events) = 2
    /\ tokenBalances[tx.sender] > InitialTokens
    /\ tokenBalances[VPN] > 0
    /\ \E a \in Addr \ {tx.sender} : balances[a] > 0

\* the smaller and the larger of two numbers
Smaller(x, y) == IF x <= y THEN x ELSE y
Larger(x, y) == IF x >= y THEN x ELSE y

\* C31: in every accepted settlement the bytes billed lie between the
\* smaller and the larger of the two reported counts p and c, and exceed the
\* consumer's count c by at most half of p / 100 + 1000.
C31_BoundedOverBilling ==
    [][Accepted =>
         LET p == tx'.serverUsage.bytesUsed
             c == tx'.clientUsage.bytesUsed
             billed == events'[Len(events')].bytesUsed
         IN  /\ Smaller(p, c) <= billed
             /\ billed <= Larger(p, c)
             /\ 2 * (billed - c) <= p \div 100 + 1000
             /\ balances[ConsumerOf(tx')] - balances'[ConsumerOf(tx')] <= Larger(p, c) * BytePrice
             /\ ProviderOf(tx') # ConsumerOf(tx') =>
                   balances[ConsumerOf(tx')] - balances'[ConsumerOf(tx')]
                      <= c * BytePrice + ((p \div 100 + 1000) \div 2) * BytePrice]_vars

\* the provider reported the most the tolerance allows above the consumer:
\* 10000 against 8900 bills 9450, which is 550 = (10000 / 100 + 1000) / 2
\* above the consumer's count
C31_Witness ==
    /\ Submitted(OK)
    /\ tx.serverUsage.bytesUsed = 10000
    /\ tx.clientUsage.bytesUsed = 8900
    /\ events[Len(events)].bytesUsed = 9450
    /\ 2 * (events[Len(events)].bytesUsed - tx.clientUsage.bytesUsed)
          = tx.serverUsage.bytesUsed \div 100 + 1000


(***************************************************************************)
(* Properties of the provider's server.  A step that answers a request     *)
(* takes reply from NoReply to the request with its status; a step of a    *)
(* handler replaces the handler in inflight.                               *)
(***************************************************************************)
Answered(kind) == reply = NoReply /\ reply' # NoReply /\ reply'.kind = kind

\* the step brings up the interface of an id or writes its configuration
BroughtUp(id) == (id \in interfaces' /\ id \notin interfaces) \/ configs'[id] # configs[id]

\* the handler takes its next step
Steps(h) == h \in Handlers /\ CopiesIn(h, inflight') < CopiesIn(h, inflight)

\* the handler h takes its next step and goes on as g
Moved(h, g) ==
    Steps(h) /\ g \in BagToSet(inflight') /\ CopiesIn(g, inflight') > CopiesIn(g, inflight)

\* the request of a handler is signed by the address it names
Authenticated(h) == verifyMessage(h.address, ItIs(h.address), h.signature)

\* the start handlers that pass the check of the contract in this step
PassingClientCheck ==
    {h \in Handlers : /\ h.kind = "start" /\ h.pc = "checkClientValid"
                      /\ \E g \in BagToSet(inflight') : Moved(h, g)}

\* C32: an interface is brought up, or its configuration written, only by a
\* /vpn/start handler whose read of checkClientValid returned true, for an
\* address that held at least the price of 1000 bytes when it was read, and
\* whose signature is the address's own over "It is <address>"; a start
\* answered 403, 401, or 500 for a failed read, has changed no interface and
\* no configuration.
C32_StartOnlyForValidClient ==
    [][/\ \A id \in VpnIds :
             BroughtUp(id) =>
                \E h \in Handlers :
                   /\ Steps(h) /\ h.kind = "start" /\ h.vpnId = id /\ h.pc = "start"
                   /\ h.isClientValid /\ Authenticated(h)
                   /\ reply' = h @@ [status |-> 200]
       /\ \A h \in PassingClientCheck : balances[h.address] >= 1000 * BytePrice
       /\ \A h \in Handlers, g \in BagToSet(inflight') :
             (Moved(h, g) /\ h.kind = "start") =>
                CASE h.pc = "checkClientValid" -> g.pc = "verifySignature" /\ g.isClientValid
                  [] h.pc = "verifySignature" -> g.pc = "start" /\ Authenticated(h)
                  [] OTHER -> FALSE
       /\ (Answered("start") /\ (reply'.status \in {401, 403} \/ reply'.pc = "checkClientValid"))
             => UNCHANGED <<interfaces, configs>>]_vars

\* a session was started for a client that holds a deposit and signed the
\* request itself
C32_Witness ==
    /\ reply # NoReply /\ reply.kind = "start" /\ reply.status = 200
    /\ reply.vpnId \in interfaces /\ configs[reply.vpnId] = reply.clientPublicKey
    /\ balances[reply.address] >= 1000 * BytePrice

\* C33: under every interleaving of /vpn/start and /vpn/stop, a start that
\* reaches provider.start for an id whose interface exists is answered 400
\* or 500 and leaves the interfaces and the configurations as they are, and
\* a stop handler that acts for an id whose interface does not exist
\* answers 400 and makes no submission to the contract.
C33_OneInterfacePerId ==
    [][\A h \in Handlers :
          /\ (Steps(h) /\ h.kind = "start" /\ h.pc = "start" /\ h.vpnId \in interfaces) =>
                /\ Answered("start") /\ reply'.status \in {400, 500}
                /\ UNCHANGED <<interfaces, configs>>
          /\ (/\ Steps(h) /\ h.kind = "stop" /\ h.pc \in {"transfer", "submit", "stop"}
              /\ h.vpnId \notin interfaces) =>
                /\ Answered("stop") /\ reply'.status = 400
                /\ tx' = tx]_vars

\* the half of C33 about /vpn/start
C33_StartKeepsRunningSession ==
    [][\A h \in Handlers :
          (Steps(h) /\ h.kind = "start" /\ h.pc = "start" /\ h.vpnId \in interfaces) =>
             /\ Answered("start") /\ reply'.status \in {400, 500}
             /\ UNCHANGED <<interfaces, configs>>]_vars

\* C34: the interface of a session started for an address is brought down
\* only by the step of a /vpn/stop handler whose request is authenticated as
\* that address.
C34_StoppedOnlyByItsClient ==
    [][\A id \in VpnIds :
          (id \in interfaces /\ id \notin interfaces') =>
             \E h \in Handlers :
                /\ Steps(h) /\ h.kind = "stop" /\ h.vpnId = id
                /\ verifyMessage(h.address, ItIs(h.address), h.signature)
                /\ h.address = sessionClient[id]]_vars

\* C35: a /vpn/stop handler whose submission failed, by a revert of the
\* contract or an error of the RPC endpoint, goes on to bring the interface
\* down and answers success; the server submits once for a request, before
\* that step, and never again.
C35_FailedSubmissionStillStops ==
    [][\A h \in Handlers :
          /\ (Steps(h) /\ h.kind = "stop" /\ h.pc = "stop" /\ h.submitted # OK) =>
                /\ h.vpnId \notin interfaces'
                /\ Answered("stop") /\ reply'.status = 200
                /\ tx' = tx
          /\ (Steps(h) /\ h.kind = "stop" /\ tx' # tx) =>
                h.pc = "submit" /\ h.submitted = NotSubmitted]_vars

\* the two records of a stop handler agree: same addresses, both counts
\* positive and within the tolerance, timestamps within 20 s and not older
\* than one interval
Consistent(h) ==
    /\ h.serverUsage.serverAddr = h.clientUsage.serverAddr
    /\ h.serverUsage.clientAddr = h.clientUsage.clientAddr
    /\ h.serverUsage.bytesUsed > 0 /\ h.clientUsage.bytesUsed > 0
    /\ Distance(h.serverUsage.bytesUsed, h.clientUsage.bytesUsed) <= ToleranceOf(h)
    /\ Distance(h.serverUsage.timestamp, h.clientUsage.timestamp) <= 20
    /\ h.serverUsage.timestamp + SubmitInterval >= now /\ h.serverUsage.timestamp <= now
    /\ h.clientUsage.timestamp + SubmitInterval >= now /\ h.clientUsage.timestamp <= now

\* C36: when the one /vpn/stop handler of a running session started for its
\* client submits consistent records to the contract and the client's
\* balance covers the price, the settlement is accepted and the provider is
\* credited the price, also for the second client the provider stops within
\* one interval.
C36_ConsistentStopSettles ==
    [][\A h \in Handlers :
          (/\ Steps(h) /\ h.kind = "stop" /\ h.pc = "submit" /\ tx' # tx
           /\ h.vpnId \in interfaces /\ sessionClient[h.vpnId] = h.address
           /\ \A other \in Handlers :
                 (other.kind = "stop" /\ other.vpnId = h.vpnId) =>
                    other = h /\ CopiesIn(h, inflight) = 1
           /\ Consistent(h)
           /\ balances[h.address] >= PriceOf(h)) =>
             /\ tx'.status = OK
             /\ balances'[ServerAccount] = balances[ServerAccount] + PriceOf(h)]_vars

\* C37: while a session started for a client is running and no stop request
\* for it is being handled, the client's balance is at least the price of
\* 1000 bytes.
C37_BalanceHeldDuringSession ==
    \A id \in interfaces :
       (\A h \in Handlers : ~(h.kind = "stop" /\ h.vpnId = id)) =>
          balances[sessionClient[id]] >= 1000 * BytePrice

\* C38: a /vpn/stop handler goes from the verification of the request's
\* signature to the running check, from there to the reading of the
\* counters, whose sum is the byte count of the record it signs, from there
\* to the submission and only then to provider.stop; an interface is brought
\* down only by a handler that has read the counters and submitted, and the
\* record submitted names the server's address as provider and the
\* authenticated address as consumer.
C38_StopOrder ==
    [][/\ \A id \in VpnIds :
             (id \in interfaces /\ id \notin interfaces') =>
                \E h \in Handlers :
                   /\ Steps(h) /\ h.kind = "stop" /\ h.vpnId = id /\ h.pc = "stop"
                   /\ Authenticated(h) /\ h.running
                   /\ h.serverUsage # NoUsage
                   /\ h.serverUsage.bytesUsed = h.inbound + h.outbound
                   /\ h.submitted # NotSubmitted
       /\ \A h \in Handlers :
             (Steps(h) /\ h.kind = "stop" /\ h.pc # "stop") => interfaces' = interfaces
       /\ \A h \in Handlers, g \in BagToSet(inflight') :
             (Moved(h, g) /\ h.kind = "stop") =>
                CASE h.pc = "verifySignature" ->
                        /\ g.pc = "transfer" /\ Authenticated(h)
                        /\ g.running = (h.vpnId \in interfaces)
                        /\ g.serverUsage = NoUsage /\ tx' = tx
                  [] h.pc = "transfer" ->
                        /\ g.pc = "submit" /\ h.running
                        /\ g.serverUsage.serverAddr = ServerAccount
                        /\ g.serverUsage.clientAddr = h.address
                        /\ g.serverUsage.bytesUsed = g.inbound + g.outbound
                        /\ (h.vpnId \notin interfaces) => (g.inbound = 0 /\ g.outbound = 0)
                        /\ g.serverUsage.timestamp = now
                        /\ verifySignature(g.serverUsage, g.serverSignature) = ServerAccount
                        /\ tx' = tx
                  [] h.pc = "submit" ->
                        /\ g.pc = "stop" /\ g.submitted # NotSubmitted
                        /\ g.serverUsage = h.serverUsage
                  [] OTHER -> FALSE
       /\ (SubmitStep /\ inflight' # inflight) =>
             \E h \in Handlers :
                /\ Steps(h) /\ h.kind = "stop" /\ h.pc = "submit" /\ Authenticated(h)
                /\ tx'.sender = ServerAccount
                /\ tx'.serverUsage = h.serverUsage /\ tx'.clientUsage = h.clientUsage
                /\ tx'.serverUsage.serverAddr = ServerAccount
                /\ tx'.serverUsage.clientAddr = h.address]_vars

\* a session was stopped: the counters 4000 and 1000 were reported as 5000
\* bytes by the server for the client that asked, the report was settled and
\* the interface is down
C38_Witness ==
    /\ reply # NoReply /\ reply.kind = "stop" /\ reply.status = 200
    /\ reply.inbound = 4000 /\ reply.outbound = 1000
    /\ reply.serverUsage = Usage(ServerAccount, reply.address, 5000, now)
    /\ reply.submitted = OK
    /\ reply.vpnId \notin interfaces

\* the stop requests the server takes up in this step
TakenUp ==
    {g \in BagToSet(inflight') :
        /\ g.kind = "stop" /\ g.pc = "verifySignature"
        /\ CopiesIn(g, inflight') > CopiesIn(g, inflight)}

\* the record a typed-data signature was made over
SignedRecord(signature) ==
    Usage(signature.digest[3][2], signature.digest[3][3], signature.digest[3][4],
          signature.digest[3][5])

\* the domain a typed-data signature was made for
SignedDomain(signature) == signature.digest[2]

====
